---- MODULE Spec2Model ----
(***************************************************************************)
(* Lead scoring and prioritisation pipeline of the DuPont Tedlar lead      *)
(* generation system (src/src/lead_scoring/lead_scorer.py).                *)
(*                                                                         *)
(* Tables are sequences of records plus the set of columns the table       *)
(* carries.  Text values are sequences of characters, so that Python's     *)
(* `keyword in text` is a real substring test.  Scores are integers in     *)
(* thousandths (1.0 is 1000): a score rounded to 2 decimals is a multiple  *)
(* of 10, and the median of an even number of such scores a multiple of 5. *)
(* Weights are integers in hundredths.                                     *)
(***************************************************************************)
EXTENDS Integers, Sequences, FiniteSets, TLC

(***************************************************************************)
(* Bounds of the model.                                                    *)
(***************************************************************************)
MaxCompanies == 3
MaxStakeholders == 2

(***************************************************************************)
(* Python text operations: str.lower() and the substring test `kw in s`.   *)
(***************************************************************************)
(* The lower-case letter of each upper-case letter.                       *)
UpperToLower ==
    ("A" :> "a") @@ ("B" :> "b") @@ ("C" :> "c") @@ ("D" :> "d") @@ ("E" :> "e") @@
    ("F" :> "f") @@ ("G" :> "g") @@ ("H" :> "h") @@ ("I" :> "i") @@ ("J" :> "j") @@
    ("K" :> "k") @@ ("L" :> "l") @@ ("M" :> "m") @@ ("N" :> "n") @@ ("O" :> "o") @@
    ("P" :> "p") @@ ("Q" :> "q") @@ ("R" :> "r") @@ ("S" :> "s") @@ ("T" :> "t") @@
    ("U" :> "u") @@ ("V" :> "v") @@ ("W" :> "w") @@ ("X" :> "x") @@ ("Y" :> "y") @@
    ("Z" :> "z")

lower_char(c) == IF c \in DOMAIN UpperToLower THEN UpperToLower[c] ELSE c

RECURSIVE lower(_)
lower(s) == IF s = <<>> THEN <<>> ELSE <<lower_char(Head(s))>> \o lower(Tail(s))

contains(kw, s) ==
    \E i \in 1..(Len(s) - Len(kw) + 1) : \A k \in 1..Len(kw) : s[i + k - 1] = kw[k]

any_keyword_in(keywords, s) ==
    \E k \in 1..Len(keywords) : contains(keywords[k], s)

(***************************************************************************)
(* Cells without a value: Python's None, and the float NaN that pandas     *)
(* puts where a text or list cell is missing.  str() prints them as 'None' *)
(* and 'nan'; None and the empty text or list are falsy, NaN is truthy.    *)
(***************************************************************************)
None == <<"None">>

float_nan == <<"nan">>

str(v) == IF v = None THEN <<"N", "o", "n", "e">> ELSE IF v = float_nan THEN <<"n", "a", "n">> ELSE v

truthy(v) == v # None /\ v # <<>>

(***************************************************************************)
(* A sequence given by a rule, computed once (its elements are otherwise   *)
(* recomputed at every use).                                               *)
seq_of(f) == SubSeq(f, 1, Len(f))

(***************************************************************************)
(* Missing values.  NaN is pandas' missing number; it propagates through   *)
(* arithmetic, is skipped by max() and median(), and compares False.       *)
(***************************************************************************)
NaN == -1

is_nan(x) == x = NaN

(* A decision_making_power cell that holds text, such as the label 'High': *)
(* no number, and arithmetic on it raises TypeError.                       *)
High == -2

is_label(x) == x = High

(* Round-half-to-even of num / den, for den > 0 (\div rounds down).       *)
round_div(num, den) ==
    LET q == num \div den
        r == num % den
    IN  IF 2 * r > den THEN q + 1
        ELSE IF 2 * r < den THEN q
        ELSE IF q % 2 = 0 THEN q ELSE q + 1

(* Series.round(2) of the exact quotient num / den, in thousandths.       *)
round2(num, den) == 10 * round_div(100 * num, den)

(* Series.max(): the largest non-missing value, NaN when there is none.    *)
series_max(s) ==
    LET vals == {s[i] : i \in 1..Len(s)} \ {NaN}
    IN  IF vals = {} THEN NaN ELSE CHOOSE v \in vals : \A u \in vals : u <= v

(***************************************************************************)
(* Sub-scores of a company (thousandths).                                  *)
(***************************************************************************)
(* _calculate_size_score: categorical size first, then the employee count  *)
(* ladder, then the 0.5 default.  `company['employees']` is falsy for 0.   *)
calculate_size_score(company, columns) ==
    LET size == lower(str(company.company_size))
        employees == company.employees
    IN  IF "company_size" \in columns /\ size = <<"l", "a", "r", "g", "e">> THEN 1000
        ELSE IF "company_size" \in columns /\ size = <<"m", "e", "d", "i", "u", "m">> THEN 700
        ELSE IF "company_size" \in columns /\ size = <<"s", "m", "a", "l", "l">> THEN 400
        ELSE IF "company_size" \in columns /\ size = <<"m", "i", "c", "r", "o">> THEN 200
        ELSE IF "employees" \in columns /\ employees # 0 /\ ~is_nan(employees)
        THEN IF employees >= 1000 THEN 1000
             ELSE IF employees >= 250 THEN 800
             ELSE IF employees >= 50 THEN 600
             ELSE IF employees >= 10 THEN 400
             ELSE 200
        ELSE 500

(* _calculate_industry_score: first matching keyword tier wins.            *)
calculate_industry_score(company, columns) ==
    IF "industry" \notin columns THEN 500
    ELSE LET industry == lower(str(company.industry))
         IN  IF any_keyword_in(<<<<"s", "i", "g", "n">>, <<"s", "i", "g", "n", "a", "g", "e">>, <<"d", "i", "s", "p", "l", "a", "y">>>>, industry) THEN 1000
             ELSE IF any_keyword_in(<<<<"g", "r", "a", "p", "h", "i", "c">>, <<"p", "r", "i", "n", "t">>, <<"a", "d", "v", "e", "r", "t", "i", "s", "i", "n", "g">>>>, industry) THEN 800
             ELSE IF any_keyword_in(<<<<"m", "a", "r", "k", "e", "t", "i", "n", "g">>, <<"m", "e", "d", "i", "a">>, <<"v", "i", "s", "u", "a", "l">>, <<"d", "e", "s", "i", "g", "n">>, <<"e", "x", "h", "i", "b", "i", "t", "i", "o", "n">>>>,
                                    industry) THEN 600
             ELSE IF any_keyword_in(<<<<"m", "a", "n", "u", "f", "a", "c", "t", "u", "r", "i", "n", "g">>, <<"p", "r", "o", "d", "u", "c", "t", "i", "o", "n">>, <<"r", "e", "t", "a", "i", "l">>,
                                      <<"c", "o", "n", "s", "t", "r", "u", "c", "t", "i", "o", "n">>>>, industry) THEN 400
             ELSE 200

(* The running `score` of _calculate_product_fit is the double reached by  *)
(* adding 0.1 to 0.5 n times: 0.5, 0.6, 0.7, 0.7999999999999999,           *)
(* 0.8999999999999999, 0.9999999999999999, 1.0999999999999999.  From the   *)
(* third addition on it lies one ulp under the decimal it prints as, so    *)
(* `score >= t` is strict there.  t is in tenths.                          *)
fit_score_ge(n, t) == IF n >= 3 THEN 5 + n > t ELSE 5 + n >= t

(* One `for item in items` loop: +0.1 per item naming a relevant keyword,  *)
(* leaving the loop once the running score reaches stop_at (tenths).       *)
RECURSIVE fit_loop(_, _, _, _, _)
fit_loop(items, i, relevant, n, stop_at) ==
    IF i > Len(items) THEN n
    ELSE IF any_keyword_in(relevant, lower(str(items[i])))
         THEN IF fit_score_ge(n + 1, stop_at) THEN n + 1
              ELSE fit_loop(items, i + 1, relevant, n + 1, stop_at)
         ELSE fit_loop(items, i + 1, relevant, n, stop_at)

relevant_products ==
    <<<<"s", "i", "g", "n">>, <<"b", "a", "n", "n", "e", "r">>, <<"d", "i", "s", "p", "l", "a", "y">>, <<"b", "i", "l", "l", "b", "o", "a", "r", "d">>, <<"g", "r", "a", "p", "h", "i", "c">>, <<"w", "r", "a", "p">>, <<"e", "x", "h", "i", "b", "i", "t">>>>

relevant_materials == <<<<"v", "i", "n", "y", "l">>, <<"p", "v", "c">>, <<"p", "l", "a", "s", "t", "i", "c">>, <<"f", "i", "l", "m">>, <<"c", "o", "m", "p", "o", "s", "i", "t", "e">>>>

(* _calculate_product_fit: 0.5, plus the products loop (left at 0.8), plus *)
(* the materials loop (left at 1.0), capped at 1.0.                        *)
calculate_product_fit(company, columns) ==
    LET after_products ==
            IF "products" \in columns /\ truthy(company.products)
            THEN fit_loop(company.products, 1, relevant_products, 0, 8)
            ELSE 0
        after_materials ==
            IF "materials" \in columns /\ truthy(company.materials)
            THEN fit_loop(company.materials, 1, relevant_materials, after_products, 10)
            ELSE after_products
    IN  IF 500 + 100 * after_materials > 1000 THEN 1000
        ELSE 500 + 100 * after_materials

(* _calculate_basic_relevance: 0.5, +0.3 for a relevant industry, +0.05    *)
(* per relevant keyword of the description up to 0.2, capped at 1.0.       *)
relevance_keywords ==
    <<<<"s", "i", "g", "n">>, <<"g", "r", "a", "p", "h", "i", "c">>, <<"p", "r", "i", "n", "t">>, <<"d", "i", "s", "p", "l", "a", "y">>, <<"b", "a", "n", "n", "e", "r">>, <<"b", "i", "l", "l", "b", "o", "a", "r", "d">>, <<"e", "x", "h", "i", "b", "i", "t">>, <<"v", "i", "n", "y", "l">>,
      <<"p", "v", "c">>, <<"f", "i", "l", "m">>>>

calculate_basic_relevance(company, columns) ==
    LET industry_part ==
            IF "industry" \in columns
               /\ any_keyword_in(<<<<"s", "i", "g", "n">>, <<"g", "r", "a", "p", "h", "i", "c">>, <<"p", "r", "i", "n", "t">>, <<"d", "i", "s", "p", "l", "a", "y">>, <<"a", "d", "v", "e", "r", "t", "i", "s", "i", "n", "g">>>>,
                                 lower(str(company.industry)))
            THEN 300 ELSE 0
        matches ==
            IF "description" \in columns
            THEN Cardinality({k \in 1..Len(relevance_keywords) :
                                contains(relevance_keywords[k],
                                         lower(str(company.description)))})
            ELSE 0
        description_part == IF matches * 50 < 200 THEN matches * 50 ELSE 200
        score == 500 + industry_part + description_part
    IN  IF score < 1000 THEN score ELSE 1000

(* _calculate_decision_power_from_title: the first matching tier wins; a   *)
(* missing or empty title gives 0.5.                                       *)
calculate_decision_power_from_title(stakeholder, columns) ==
    IF "title" \notin columns \/ ~truthy(stakeholder.title) THEN 500
    ELSE LET title == lower(str(stakeholder.title))
         IN  IF any_keyword_in(<<<<"c", "e", "o">>, <<"c", "h", "i", "e", "f">>, <<"p", "r", "e", "s", "i", "d", "e", "n", "t">>, <<"o", "w", "n", "e", "r">>, <<"f", "o", "u", "n", "d", "e", "r">>,
                                 <<"m", "a", "n", "a", "g", "i", "n", "g", " ", "d", "i", "r", "e", "c", "t", "o", "r">>>>, title) THEN 1000
             ELSE IF any_keyword_in(<<<<"d", "i", "r", "e", "c", "t", "o", "r">>, <<"v", "p">>, <<"v", "i", "c", "e", " ", "p", "r", "e", "s", "i", "d", "e", "n", "t">>, <<"h", "e", "a", "d">>>>, title)
                  THEN 800
             ELSE IF any_keyword_in(<<<<"m", "a", "n", "a", "g", "e", "r">>, <<"l", "e", "a", "d">>, <<"s", "e", "n", "i", "o", "r">>, <<"p", "r", "i", "n", "c", "i", "p", "a", "l">>>>, title)
                  THEN 600
             ELSE 400

(***************************************************************************)
(* SCORING_WEIGHTS, in hundredths.  The configuration is external to the   *)
(* scorer; the weights need not sum to 1.                                  *)
(***************************************************************************)
ScoringWeightConfigs ==
    { [company_size |-> 40, industry_relevance |-> 40, product_fit |-> 20,
       decision_making_power |-> 30],
      [company_size |-> 30, industry_relevance |-> 30, product_fit |-> 30,
       decision_making_power |-> 50] }

(***************************************************************************)
(* _score_companies                                                        *)
(***************************************************************************)
score_columns ==
    {"relevance_score", "size_score", "industry_score", "product_fit_score",
     "company_score"}

(* The weighted sum of the three sub-scores, in units of 1e-5.             *)
weighted_company_score(size_score, industry_score, product_fit_score, w) ==
    size_score * w.company_size
    + industry_score * w.industry_relevance
    + product_fit_score * w.product_fit

(* Faulty variant of normalize: rounds without dividing by the maximum.    *)
normalize_without_division(raw, max_score, unit) ==
    IF is_nan(raw) THEN NaN ELSE round2(raw, unit)

(* Divide by the batch maximum when it is positive, then round(2).         *)
normalize(raw, max_score, unit) ==
    IF is_nan(raw) THEN NaN
    ELSE IF ~is_nan(max_score) /\ max_score > 0 THEN round2(raw, max_score)
    ELSE round2(raw, unit)

score_companies(companies, columns, w) ==
    LET sub(c) ==
            [relevance_score |-> calculate_basic_relevance(c, columns),
             size_score |-> calculate_size_score(c, columns),
             industry_score |-> calculate_industry_score(c, columns),
             product_fit_score |-> calculate_product_fit(c, columns)]
        subs == seq_of([i \in 1..Len(companies) |-> sub(companies[i])])
        raw == seq_of([i \in 1..Len(companies) |->
                   weighted_company_score(subs[i].size_score, subs[i].industry_score,
                                          subs[i].product_fit_score, w)])
        max_score == series_max(raw)
    IN  [i \in 1..Len(companies) |->
            companies[i] @@ subs[i]
            @@ [company_score |-> normalize(raw[i], max_score, 100000)]]

(***************************************************************************)
(* _score_stakeholders                                                     *)
(***************************************************************************)
(* dict(zip(name, company_score)): the last row of a name wins; Series.map *)
(* gives NaN for a name that is no key.                                    *)
company_scores(companies, name) ==
    LET rows == {j \in 1..Len(companies) : companies[j].name = name}
    IN  IF rows = {} THEN NaN
        ELSE companies[CHOOSE j \in rows : \A k \in rows : k <= j].company_score

RECURSIVE insert_sorted(_, _)
insert_sorted(s, v) ==
    IF s = <<>> THEN <<v>>
    ELSE IF v <= Head(s) THEN <<v>> \o s
    ELSE <<Head(s)>> \o insert_sorted(Tail(s), v)

RECURSIVE sort_values_asc(_)
sort_values_asc(s) ==
    IF s = <<>> THEN <<>> ELSE insert_sorted(sort_values_asc(Tail(s)), Head(s))

(* Faulty variant of median: the mean of the series.                      *)
RECURSIVE series_sum(_)
series_sum(s) == IF s = <<>> THEN 0 ELSE Head(s) + series_sum(Tail(s))

median_as_mean(s) == IF Len(s) = 0 THEN NaN ELSE series_sum(s) \div Len(s)

(* Series.median(): the middle value, or the mean of the two middle ones;  *)
(* NaN for an empty series.                                                *)
median(s) ==
    LET sorted == sort_values_asc(s)
        n == Len(s)
    IN  IF n = 0 THEN NaN
        ELSE IF n % 2 = 1 THEN sorted[(n + 1) \div 2]
        ELSE (sorted[n \div 2] + sorted[n \div 2 + 1]) \div 2

(* decision_making_power * w + company_score * (1 - w), in units of 1e-5.  *)
weighted_stakeholder_score(decision_making_power, company_score, w) ==
    IF is_nan(decision_making_power) \/ is_nan(company_score) THEN NaN
    ELSE decision_making_power * w.decision_making_power
         + company_score * (100 - w.decision_making_power)

(* Faulty variant of score_stakeholders: decision_making_power is derived  *)
(* from the title also when the table supplies it.                         *)
score_stakeholders_power_rederived(stakeholders, columns, companies, company_columns, w) ==
    LET power(s) == calculate_decision_power_from_title(s, columns)
        median_score == median([j \in 1..Len(companies) |-> companies[j].company_score])
        mapped(s) == company_scores(companies, s.company)
        company_score(s) ==
            IF is_nan(mapped(s)) THEN median_score ELSE mapped(s)
        raw == seq_of([i \in 1..Len(stakeholders) |->
                   weighted_stakeholder_score(power(stakeholders[i]),
                                              company_score(stakeholders[i]), w)])
        max_score == series_max(raw)
    IN  [i \in 1..Len(stakeholders) |->
            [decision_making_power |-> power(stakeholders[i]),
             company_score |-> company_score(stakeholders[i]),
             stakeholder_score |-> normalize(raw[i], max_score, 100000)]
            @@ stakeholders[i]]

score_stakeholders(stakeholders, columns, companies, company_columns, w) ==
    LET power(s) ==
            IF "decision_making_power" \in columns THEN s.decision_making_power
            ELSE calculate_decision_power_from_title(s, columns)
        median_score == median([j \in 1..Len(companies) |-> companies[j].company_score])
        mapped(s) == company_scores(companies, s.company)
        company_score(s) ==
            IF "company_score" \in company_columns
            THEN IF is_nan(mapped(s)) THEN median_score ELSE mapped(s)
            ELSE 500
        raw == seq_of([i \in 1..Len(stakeholders) |->
                   weighted_stakeholder_score(power(stakeholders[i]),
                                              company_score(stakeholders[i]), w)])
        max_score == series_max(raw)
    IN  [i \in 1..Len(stakeholders) |->
            [decision_making_power |-> power(stakeholders[i]),
             company_score |-> company_score(stakeholders[i]),
             stakeholder_score |-> normalize(raw[i], max_score, 100000)]
            @@ stakeholders[i]]

(***************************************************************************)
(* _generate_leads                                                         *)
(***************************************************************************)
merge_company_columns ==
    {"name", "industry", "company_size", "company_score", "relevance_score",
     "products", "materials", "target_markets"}

dashboard_columns ==
    <<"lead_id", "name", "title", "company", "email", "linkedin_url", "lead_score",
      "tier", "company_score", "stakeholder_score", "decision_making_power",
      "industry", "company_size", "products", "materials", "target_markets">>

(* Faulty variant of merge_pairs: the join key is compared ignoring case.  *)
merge_pairs_ignore_case(stakeholders, companies) ==
    LET ns == Len(stakeholders)
        nc == Len(companies)
        all_pairs == [k \in 1..(ns * nc) |-> <<((k - 1) \div nc) + 1, ((k - 1) % nc) + 1>>]
    IN  SelectSeq(all_pairs,
                  LAMBDA p : lower(stakeholders[p[1]].company)
                                 = lower(companies[p[2]].name))

(* pd.merge(..., left_on='company', right_on='name'): an inner join that   *)
(* keeps the order of the left rows and, for one left row, the order of    *)
(* its matching right rows.  Pairs <<stakeholder row, company row>>.       *)
merge_pairs(stakeholders, companies) ==
    LET ns == Len(stakeholders)
        nc == Len(companies)
        all_pairs == [k \in 1..(ns * nc) |-> <<((k - 1) \div nc) + 1, ((k - 1) % nc) + 1>>]
    IN  SelectSeq(all_pairs,
                  LAMBDA p : stakeholders[p[1]].company = companies[p[2]].name)

(* The columns of the merged frame: overlapping right columns get the      *)
(* suffix _company, the left ones keep their name.                         *)
merged_columns(stakeholder_cols) ==
    stakeholder_cols
    \cup {IF c \in stakeholder_cols THEN c \o "_company" ELSE c :
             c \in merge_company_columns}

(* Faulty variant of blend_lead_score: an even blend.                      *)
blend_lead_score_even(company_score, stakeholder_score) ==
    IF is_nan(company_score) \/ is_nan(stakeholder_score) THEN NaN
    ELSE round2(5 * company_score + 5 * stakeholder_score, 10000)

(* 0.6 * company_score + 0.4 * stakeholder_score, rounded to 2 decimals.   *)
blend_lead_score(company_score, stakeholder_score) ==
    IF is_nan(company_score) \/ is_nan(stakeholder_score) THEN NaN
    ELSE round2(6 * company_score + 4 * stakeholder_score, 10000)

(* Faulty variant of cut_tier: left-closed bins (right=False).             *)
cut_tier_left_closed(lead_score) ==
    IF is_nan(lead_score) \/ lead_score < 0 THEN "NaN"
    ELSE IF lead_score < 300 THEN "Tier 3"
    ELSE IF lead_score < 600 THEN "Tier 2"
    ELSE IF lead_score < 1000 THEN "Tier 1"
    ELSE "NaN"

(* pd.cut(lead_score, bins=[0, 0.3, 0.6, 1.0]): right-closed bins, the     *)
(* lowest edge excluded; a value in no bin has no tier.                    *)
cut_tier(lead_score) ==
    IF is_nan(lead_score) \/ lead_score <= 0 THEN "NaN"
    ELSE IF lead_score <= 300 THEN "Tier 3"
    ELSE IF lead_score <= 600 THEN "Tier 2"
    ELSE IF lead_score <= 1000 THEN "Tier 1"
    ELSE "NaN"

DigitChars == <<"0", "1", "2", "3", "4", "5", "6", "7", "8", "9">>

RECURSIVE digits(_)
digits(i) ==
    IF i < 10 THEN <<DigitChars[i + 1]>>
    ELSE digits(i \div 10) \o <<DigitChars[(i % 10) + 1]>>

RECURSIVE zero_pad(_, _)
zero_pad(s, width) == IF Len(s) >= width THEN s ELSE zero_pad(<<"0">> \o s, width)

digit_value(c) == CHOOSE d \in 0..9 : DigitChars[d + 1] = c

RECURSIVE parse_int(_)
parse_int(s) ==
    IF s = <<>> THEN 0
    ELSE 10 * parse_int(SubSeq(s, 1, Len(s) - 1)) + digit_value(s[Len(s)])

(* f"LEAD-{i:04d}"                                                         *)
lead_id(i) == <<"L", "E", "A", "D", "-">> \o zero_pad(digits(i), 4)

(* Faulty variant of sort_orders: ascending=True.                          *)
RECURSIVE sort_orders_ascending(_, _)
sort_orders_ascending(keys, remaining) ==
    IF remaining = {} THEN {<<>>}
    ELSE LET first == {i \in remaining : \A j \in remaining : keys[i] <= keys[j]}
         IN  UNION {{<<i>> \o rest : rest \in sort_orders_ascending(keys, remaining \ {i})} :
                      i \in first}

(* sort_values('lead_score', ascending=False) with the default quicksort:  *)
(* every order of the rows that is descending in the key is a possible     *)
(* outcome (rows with equal keys may come out in any order); missing keys  *)
(* go last.  Orders are sequences of positions of the merged frame.        *)
RECURSIVE sort_orders(_, _)
sort_orders(keys, remaining) ==
    IF remaining = {} THEN {<<>>}
    ELSE LET first == {i \in remaining : \A j \in remaining : keys[j] <= keys[i]}
         IN  UNION {{<<i>> \o rest : rest \in sort_orders(keys, remaining \ {i})} :
                      i \in first}

(* The merged frame before sorting: the stakeholder's columns, the         *)
(* company's merged columns, and lead_score.                               *)
merged_rows(stakeholders, companies) ==
    LET pairs == merge_pairs(stakeholders, companies)
        row(p) ==
            LET s == stakeholders[p[1]]
                c == companies[p[2]]
            IN  [name |-> s.name, title |-> s.title, company |-> s.company,
                 email |-> s.email, linkedin_url |-> s.linkedin_url,
                 decision_making_power |-> s.decision_making_power,
                 company_score |-> s.company_score,
                 stakeholder_score |-> s.stakeholder_score,
                 industry |-> c.industry, company_size |-> c.company_size,
                 products |-> c.products, materials |-> c.materials,
                 target_markets |-> c.target_markets,
                 lead_score |-> blend_lead_score(s.company_score, s.stakeholder_score)]
    IN  [k \in 1..Len(pairs) |-> row(pairs[k])]

existing_columns(stakeholder_cols) ==
    LET present == merged_columns(stakeholder_cols) \cup {"lead_score", "tier", "lead_id"}
    IN  SelectSeq(dashboard_columns, LAMBDA col : col \in present)

(* Faulty variant of leads_frame: lead_id is assigned before the sort.     *)
leads_frame_ids_before_sort(merged, order, out_columns) ==
    LET full(k) ==
            merged[order[k]]
            @@ [tier |-> cut_tier(merged[order[k]].lead_score),
                lead_id |-> lead_id(order[k])]
    IN  [k \in 1..Len(order) |->
            [col \in {out_columns[n] : n \in 1..Len(out_columns)} |-> full(k)[col]]]

(* The returned frame for one sort outcome: tier and lead_id are added in  *)
(* sorted order, then the existing dashboard columns are selected.         *)
leads_frame(merged, order, out_columns) ==
    LET full(k) ==
            merged[order[k]]
            @@ [tier |-> cut_tier(merged[order[k]].lead_score), lead_id |-> lead_id(k)]
    IN  [k \in 1..Len(order) |->
            [col \in {out_columns[n] : n \in 1..Len(out_columns)} |-> full(k)[col]]]

(***************************************************************************)
(* Attribute extraction (src/src/data_enrichment/company_enricher.py).     *)
(* CLEARBIT_API_KEY is not set: enrichment makes no request.               *)
(***************************************************************************)
upper_char(c) ==
    IF \E u \in DOMAIN UpperToLower : UpperToLower[u] = c
    THEN CHOOSE u \in DOMAIN UpperToLower : UpperToLower[u] = c
    ELSE c

is_letter(c) == c \in DOMAIN UpperToLower \/ upper_char(c) # c

(* str.title(): a letter after a non-letter is upper-cased, any other      *)
(* letter lower-cased.                                                     *)
title(s) ==
    seq_of([i \in 1..Len(s) |->
               IF i = 1 \/ ~is_letter(s[i - 1]) THEN upper_char(s[i]) ELSE lower_char(s[i])])

(* Series.get(field, default)                                              *)
get(company, columns, field, default) ==
    IF field \in columns THEN company[field] ELSE default

(* self.industry_keywords, in declaration order.                           *)
industry_keywords ==
    << <<<<"s", "i", "g", "n", "a", "g", "e">>, <<<<"s", "i", "g", "n">>, <<"s", "i", "g", "n", "a", "g", "e">>, <<"d", "i", "s", "p", "l", "a", "y">>, <<"b", "i", "l", "l", "b", "o", "a", "r", "d">>, <<"b", "a", "n", "n", "e", "r">>, <<"e", "x", "h", "i", "b", "i", "t">>>>>>,
       <<<<"g", "r", "a", "p", "h", "i", "c", "s">>, <<<<"g", "r", "a", "p", "h", "i", "c">>, <<"p", "r", "i", "n", "t">>, <<"p", "r", "i", "n", "t", "i", "n", "g">>, <<"v", "i", "s", "u", "a", "l">>, <<"d", "e", "s", "i", "g", "n">>, <<"c", "r", "e", "a", "t", "i", "v", "e">>>>>>,
       <<<<"m", "a", "n", "u", "f", "a", "c", "t", "u", "r", "i", "n", "g">>, <<<<"m", "a", "n", "u", "f", "a", "c", "t", "u", "r", "i", "n", "g">>, <<"p", "r", "o", "d", "u", "c", "t", "i", "o", "n">>, <<"f", "a", "b", "r", "i", "c", "a", "t", "i", "o", "n">>, <<"i", "n", "d", "u", "s", "t", "r", "i", "a", "l">>>>>>,
       <<<<"m", "a", "t", "e", "r", "i", "a", "l", "s">>, <<<<"m", "a", "t", "e", "r", "i", "a", "l">>, <<"v", "i", "n", "y", "l">>, <<"p", "v", "c">>, <<"f", "i", "l", "m">>, <<"p", "l", "a", "s", "t", "i", "c">>, <<"c", "o", "m", "p", "o", "s", "i", "t", "e">>>>>>,
       <<<<"o", "u", "t", "d", "o", "o", "r">>, <<<<"o", "u", "t", "d", "o", "o", "r">>, <<"e", "x", "t", "e", "r", "i", "o", "r">>, <<"w", "e", "a", "t", "h", "e", "r">>, <<"d", "u", "r", "a", "b", "l", "e">>, <<"r", "e", "s", "i", "s", "t", "a", "n", "t">>>>>>,
       <<<<"a", "d", "v", "e", "r", "t", "i", "s", "i", "n", "g">>, <<<<"a", "d", "v", "e", "r", "t", "i", "s", "i", "n", "g">>, <<"m", "a", "r", "k", "e", "t", "i", "n", "g">>, <<"p", "r", "o", "m", "o", "t", "i", "o", "n">>, <<"m", "e", "d", "i", "a">>, <<"b", "r", "a", "n", "d">>>>>> >>

(* The number of keywords of a list that occur in a text.                  *)
keyword_hits(keywords, text) ==
    Cardinality({k \in 1..Len(keywords) : contains(keywords[k], text)})

(* The text _extract_industry searches: f"{description} {website}".        *)
industry_text(company, columns) ==
    lower(str(get(company, columns, "description", <<>>)))
    \o <<" ">> \o lower(str(get(company, columns, "website", <<>>)))

(* Faulty variant of max_key: the last key with the largest value.         *)
max_key_last(keys, value) ==
    LET best == CHOOSE i \in 1..Len(keys) :
                    \A j \in 1..Len(keys) : value[keys[j]] <= value[keys[i]]
    IN  keys[CHOOSE i \in 1..Len(keys) :
                 /\ value[keys[i]] = value[keys[best]]
                 /\ \A j \in (i + 1)..Len(keys) : value[keys[j]] # value[keys[best]]]

(* max(d, key=d.get) over a non-empty dict: the first key, in insertion    *)
(* order, with the largest value.                                          *)
max_key(keys, value) ==
    LET best == CHOOSE i \in 1..Len(keys) :
                    \A j \in 1..Len(keys) : value[keys[j]] <= value[keys[i]]
    IN  keys[CHOOSE i \in 1..Len(keys) :
                 /\ value[keys[i]] = value[keys[best]]
                 /\ \A j \in 1..(i - 1) : value[keys[j]] # value[keys[best]]]

(* _extract_industry: an industry already there is returned; otherwise the *)
(* category with the most keywords in the text, or the default.            *)
extract_industry(company, columns) ==
    IF "industry" \in columns /\ truthy(company.industry) THEN company.industry
    ELSE LET text == industry_text(company, columns)
             score == seq_of([k \in 1..Len(industry_keywords) |->
                                 keyword_hits(industry_keywords[k][2], text)])
             industry_scores ==
                 SelectSeq(seq_of([k \in 1..Len(industry_keywords) |-> k]),
                           LAMBDA k : score[k] > 0)
         IN  IF industry_scores # <<>>
             THEN industry_keywords[max_key(industry_scores, score)][1]
             ELSE <<"G", "r", "a", "p", "h", "i", "c", "s", " ", "a", "n", "d", " ", "S", "i", "g", "n", "a", "g", "e">>

(* _extract_company_size: the employee count, else the annual revenue,     *)
(* else the description, else Medium.  int(NaN) raises ValueError, which   *)
(* is passed over; float(NaN) is NaN, which is below no threshold.         *)
extract_company_size(company, columns) ==
    LET employees == company.employees
        revenue == company.annual_revenue
        description == lower(str(get(company, columns, "description", <<>>)))
    IN  IF "employees" \in columns /\ employees # 0 /\ ~is_nan(employees)
        THEN IF employees < 10 THEN <<"M", "i", "c", "r", "o">>
             ELSE IF employees < 50 THEN <<"S", "m", "a", "l", "l">>
             ELSE IF employees < 250 THEN <<"M", "e", "d", "i", "u", "m">>
             ELSE <<"L", "a", "r", "g", "e">>
        ELSE IF "annual_revenue" \in columns /\ revenue # 0
        THEN IF is_nan(revenue) THEN <<"L", "a", "r", "g", "e">>
             ELSE IF revenue < 1000000 THEN <<"M", "i", "c", "r", "o">>
             ELSE IF revenue < 10000000 THEN <<"S", "m", "a", "l", "l">>
             ELSE IF revenue < 50000000 THEN <<"M", "e", "d", "i", "u", "m">>
             ELSE <<"L", "a", "r", "g", "e">>
        ELSE IF any_keyword_in(<<<<"f", "o", "r", "t", "u", "n", "e", " ", "5", "0", "0">>, <<"g", "l", "o", "b", "a", "l">>, <<"m", "u", "l", "t", "i", "n", "a", "t", "i", "o", "n", "a", "l">>, <<"e", "n", "t", "e", "r", "p", "r", "i", "s", "e">>,
                                 <<"c", "o", "r", "p", "o", "r", "a", "t", "i", "o", "n">>>>, description) THEN <<"L", "a", "r", "g", "e">>
        ELSE IF any_keyword_in(<<<<"m", "e", "d", "i", "u", "m">>, <<"g", "r", "o", "w", "i", "n", "g">>, <<"e", "s", "t", "a", "b", "l", "i", "s", "h", "e", "d">>>>, description)
        THEN <<"M", "e", "d", "i", "u", "m">>
        ELSE IF any_keyword_in(<<<<"s", "m", "a", "l", "l">>, <<"s", "t", "a", "r", "t", "u", "p">>, <<"b", "o", "u", "t", "i", "q", "u", "e">>, <<"f", "a", "m", "i", "l", "y">>>>, description)
        THEN <<"S", "m", "a", "l", "l">>
        ELSE <<"M", "e", "d", "i", "u", "m">>

product_keywords ==
    <<<<"s", "i", "g", "n", "s">>, <<"b", "a", "n", "n", "e", "r", "s">>, <<"d", "i", "s", "p", "l", "a", "y", "s">>, <<"b", "i", "l", "l", "b", "o", "a", "r", "d", "s">>, <<"p", "o", "s", "t", "e", "r", "s">>, <<"g", "r", "a", "p", "h", "i", "c", "s">>, <<"w", "r", "a", "p", "s">>,
      <<"v", "e", "h", "i", "c", "l", "e", " ", "w", "r", "a", "p", "s">>, <<"w", "a", "l", "l", " ", "g", "r", "a", "p", "h", "i", "c", "s">>, <<"w", "i", "n", "d", "o", "w", " ", "g", "r", "a", "p", "h", "i", "c", "s">>, <<"f", "l", "o", "o", "r", " ", "g", "r", "a", "p", "h", "i", "c", "s">>,
      <<"t", "r", "a", "d", "e", " ", "s", "h", "o", "w", " ", "d", "i", "s", "p", "l", "a", "y", "s">>, <<"e", "x", "h", "i", "b", "i", "t", "s">>, <<"d", "i", "g", "i", "t", "a", "l", " ", "s", "i", "g", "n", "a", "g", "e">>, <<"l", "e", "d", " ", "s", "i", "g", "n", "s">>,
      <<"c", "h", "a", "n", "n", "e", "l", " ", "l", "e", "t", "t", "e", "r", "s">>, <<"m", "o", "n", "u", "m", "e", "n", "t", " ", "s", "i", "g", "n", "s">>, <<"w", "a", "y", "f", "i", "n", "d", "i", "n", "g">>, <<"a", "r", "c", "h", "i", "t", "e", "c", "t", "u", "r", "a", "l", " ", "s", "i", "g", "n", "a", "g", "e">>>>

(* The keywords of a list found in a description, title-cased, in order.   *)
found_keywords(keywords, description) ==
    LET found == SelectSeq(keywords, LAMBDA kw : contains(kw, description))
    IN  seq_of([k \in 1..Len(found) |-> title(found[k])])

(* _extract_products: always from the description; with none found, the    *)
(* defaults of the industry.                                               *)
extract_products(company, columns) ==
    LET description == lower(str(get(company, columns, "description", <<>>)))
        products == found_keywords(product_keywords, description)
        cell == get(company, columns, "industry", <<>>)
        industry == lower(IF cell = None THEN <<>> ELSE str(cell))
    IN  IF products # <<>> THEN products
        ELSE IF contains(<<"s", "i", "g", "n">>, industry) \/ contains(<<"d", "i", "s", "p", "l", "a", "y">>, industry)
        THEN <<<<"S", "i", "g", "n", "s">>, <<"D", "i", "s", "p", "l", "a", "y", "s">>>>
        ELSE IF contains(<<"p", "r", "i", "n", "t">>, industry) \/ contains(<<"g", "r", "a", "p", "h", "i", "c">>, industry)
        THEN <<<<"G", "r", "a", "p", "h", "i", "c", "s">>, <<"P", "r", "i", "n", "t", "e", "d", " ", "M", "a", "t", "e", "r", "i", "a", "l", "s">>>>
        ELSE IF contains(<<"a", "d", "v", "e", "r", "t", "i", "s", "i", "n", "g">>, industry) \/ contains(<<"m", "a", "r", "k", "e", "t", "i", "n", "g">>, industry)
        THEN <<<<"A", "d", "v", "e", "r", "t", "i", "s", "i", "n", "g", " ", "D", "i", "s", "p", "l", "a", "y", "s">>, <<"M", "a", "r", "k", "e", "t", "i", "n", "g", " ", "M", "a", "t", "e", "r", "i", "a", "l", "s">>>>
        ELSE <<<<"G", "r", "a", "p", "h", "i", "c", "s", " ", "P", "r", "o", "d", "u", "c", "t", "s">>, <<"S", "i", "g", "n", "a", "g", "e", " ", "S", "o", "l", "u", "t", "i", "o", "n", "s">>>>

material_keywords ==
    <<<<"v", "i", "n", "y", "l">>, <<"p", "v", "c">>, <<"a", "c", "r", "y", "l", "i", "c">>, <<"a", "l", "u", "m", "i", "n", "u", "m">>, <<"m", "e", "t", "a", "l">>, <<"p", "l", "a", "s", "t", "i", "c">>, <<"c", "o", "m", "p", "o", "s", "i", "t", "e">>, <<"f", "a", "b", "r", "i", "c">>,
      <<"c", "a", "n", "v", "a", "s">>, <<"f", "i", "l", "m">>, <<"a", "d", "h", "e", "s", "i", "v", "e">>, <<"f", "o", "a", "m">>, <<"w", "o", "o", "d">>, <<"g", "l", "a", "s", "s">>, <<"l", "e", "d">>, <<"p", "o", "l", "y", "c", "a", "r", "b", "o", "n", "a", "t", "e">>,
      <<"c", "o", "r", "o", "p", "l", "a", "s", "t">>, <<"d", "i", "b", "o", "n", "d">>, <<"a", "l", "u", "c", "o", "b", "o", "n", "d">>, <<"s", "i", "n", "t", "r", "a">>>>

any_item_contains(kw, items) ==
    \E k \in 1..Len(items) : contains(kw, lower(str(items[k])))

(* _extract_materials: always from the description; with none found, the   *)
(* defaults of the industry and the products.                              *)
extract_materials(company, columns) ==
    LET description == lower(str(get(company, columns, "description", <<>>)))
        materials == found_keywords(material_keywords, description)
        industry == lower(get(company, columns, "industry", <<>>))
        products == get(company, columns, "products", <<>>)
    IN  IF materials # <<>> THEN materials
        ELSE IF contains(<<"s", "i", "g", "n">>, industry) \/ any_item_contains(<<"s", "i", "g", "n">>, products)
        THEN <<<<"V", "i", "n", "y", "l">>, <<"A", "l", "u", "m", "i", "n", "u", "m">>, <<"A", "c", "r", "y", "l", "i", "c">>>>
        ELSE IF contains(<<"p", "r", "i", "n", "t">>, industry) \/ any_item_contains(<<"p", "r", "i", "n", "t">>, products)
        THEN <<<<"V", "i", "n", "y", "l">>, <<"F", "i", "l", "m">>, <<"P", "a", "p", "e", "r">>>>
        ELSE IF contains(<<"d", "i", "s", "p", "l", "a", "y">>, industry) \/ any_item_contains(<<"d", "i", "s", "p", "l", "a", "y">>, products)
        THEN <<<<"F", "a", "b", "r", "i", "c">>, <<"V", "i", "n", "y", "l">>, <<"A", "l", "u", "m", "i", "n", "u", "m">>>>
        ELSE <<<<"V", "i", "n", "y", "l">>, <<"P", "l", "a", "s", "t", "i", "c">>, <<"C", "o", "m", "p", "o", "s", "i", "t", "e">>>>

market_keywords ==
    << <<<<"R", "e", "t", "a", "i", "l">>, <<<<"r", "e", "t", "a", "i", "l">>, <<"s", "t", "o", "r", "e">>, <<"s", "h", "o", "p">>, <<"m", "a", "l", "l">>, <<"b", "o", "u", "t", "i", "q", "u", "e">>>>>>,
       <<<<"C", "o", "r", "p", "o", "r", "a", "t", "e">>, <<<<"c", "o", "r", "p", "o", "r", "a", "t", "e">>, <<"o", "f", "f", "i", "c", "e">>, <<"b", "u", "s", "i", "n", "e", "s", "s">>, <<"e", "n", "t", "e", "r", "p", "r", "i", "s", "e">>, <<"c", "o", "m", "p", "a", "n", "y">>>>>>,
       <<<<"E", "d", "u", "c", "a", "t", "i", "o", "n">>, <<<<"e", "d", "u", "c", "a", "t", "i", "o", "n">>, <<"s", "c", "h", "o", "o", "l">>, <<"u", "n", "i", "v", "e", "r", "s", "i", "t", "y">>, <<"c", "o", "l", "l", "e", "g", "e">>, <<"c", "a", "m", "p", "u", "s">>>>>>,
       <<<<"H", "e", "a", "l", "t", "h", "c", "a", "r", "e">>, <<<<"h", "e", "a", "l", "t", "h", "c", "a", "r", "e">>, <<"h", "o", "s", "p", "i", "t", "a", "l">>, <<"m", "e", "d", "i", "c", "a", "l">>, <<"c", "l", "i", "n", "i", "c">>, <<"d", "o", "c", "t", "o", "r">>>>>>,
       <<<<"H", "o", "s", "p", "i", "t", "a", "l", "i", "t", "y">>, <<<<"h", "o", "s", "p", "i", "t", "a", "l", "i", "t", "y">>, <<"h", "o", "t", "e", "l">>, <<"r", "e", "s", "t", "a", "u", "r", "a", "n", "t">>, <<"r", "e", "s", "o", "r", "t">>, <<"c", "a", "f", "e">>>>>>,
       <<<<"T", "r", "a", "n", "s", "p", "o", "r", "t", "a", "t", "i", "o", "n">>, <<<<"t", "r", "a", "n", "s", "p", "o", "r", "t", "a", "t", "i", "o", "n">>, <<"a", "i", "r", "p", "o", "r", "t">>, <<"t", "r", "a", "n", "s", "i", "t">>, <<"b", "u", "s">>, <<"t", "r", "a", "i", "n">>>>>>,
       <<<<"G", "o", "v", "e", "r", "n", "m", "e", "n", "t">>, <<<<"g", "o", "v", "e", "r", "n", "m", "e", "n", "t">>, <<"m", "u", "n", "i", "c", "i", "p", "a", "l">>, <<"c", "i", "t", "y">>, <<"s", "t", "a", "t", "e">>, <<"f", "e", "d", "e", "r", "a", "l">>>>>>,
       <<<<"E", "v", "e", "n", "t", "s">>, <<<<"e", "v", "e", "n", "t">>, <<"e", "x", "h", "i", "b", "i", "t", "i", "o", "n">>, <<"t", "r", "a", "d", "e", " ", "s", "h", "o", "w">>, <<"c", "o", "n", "f", "e", "r", "e", "n", "c", "e">>, <<"c", "o", "n", "v", "e", "n", "t", "i", "o", "n">>>>>>,
       <<<<"O", "u", "t", "d", "o", "o", "r", " ", "A", "d", "v", "e", "r", "t", "i", "s", "i", "n", "g">>, <<<<"o", "u", "t", "d", "o", "o", "r">>, <<"b", "i", "l", "l", "b", "o", "a", "r", "d">>, <<"s", "t", "r", "e", "e", "t">>, <<"r", "o", "a", "d", "s", "i", "d", "e">>, <<"h", "i", "g", "h", "w", "a", "y">>>>>> >>

(* _extract_target_markets: always from the description; with none found,  *)
(* the defaults of the industry.                                           *)
extract_target_markets(company, columns) ==
    LET description == lower(str(get(company, columns, "description", <<>>)))
        found == SelectSeq(market_keywords,
                           LAMBDA m : any_keyword_in(m[2], description))
        markets == seq_of([k \in 1..Len(found) |-> found[k][1]])
        industry == lower(get(company, columns, "industry", <<>>))
    IN  IF markets # <<>> THEN markets
        ELSE IF contains(<<"r", "e", "t", "a", "i", "l">>, industry) \/ contains(<<"s", "t", "o", "r", "e">>, industry)
        THEN <<<<"R", "e", "t", "a", "i", "l">>, <<"C", "o", "r", "p", "o", "r", "a", "t", "e">>>>
        ELSE IF contains(<<"a", "d", "v", "e", "r", "t", "i", "s", "i", "n", "g">>, industry) \/ contains(<<"m", "a", "r", "k", "e", "t", "i", "n", "g">>, industry)
        THEN <<<<"C", "o", "r", "p", "o", "r", "a", "t", "e">>, <<"R", "e", "t", "a", "i", "l">>, <<"O", "u", "t", "d", "o", "o", "r", " ", "A", "d", "v", "e", "r", "t", "i", "s", "i", "n", "g">>>>
        ELSE IF contains(<<"e", "x", "h", "i", "b", "i", "t">>, industry) \/ contains(<<"d", "i", "s", "p", "l", "a", "y">>, industry)
        THEN <<<<"E", "v", "e", "n", "t", "s">>, <<"C", "o", "r", "p", "o", "r", "a", "t", "e">>, <<"R", "e", "t", "a", "i", "l">>>>
        ELSE <<<<"C", "o", "r", "p", "o", "r", "a", "t", "e">>, <<"R", "e", "t", "a", "i", "l">>, <<"E", "v", "e", "n", "t", "s">>>>

(* The number of items of a list that name a keyword of another list.      *)
relevant_items(items, keywords) ==
    Cardinality({k \in 1..Len(items) : any_keyword_in(keywords, lower(str(items[k])))})

(* _calculate_relevance_score: five parts of at most 1.0 each, divided by  *)
(* 5.0 and rounded to 2 decimals (thousandths).                            *)
calculate_relevance_score(company, columns) ==
    LET industry == lower(str(get(company, columns, "industry", <<>>)))
        industry_part ==
            IF contains(<<"s", "i", "g", "n">>, industry) \/ contains(<<"d", "i", "s", "p", "l", "a", "y">>, industry) THEN 1000
            ELSE IF contains(<<"p", "r", "i", "n", "t">>, industry) \/ contains(<<"g", "r", "a", "p", "h", "i", "c">>, industry) THEN 800
            ELSE IF contains(<<"a", "d", "v", "e", "r", "t", "i", "s", "i", "n", "g">>, industry) \/ contains(<<"m", "a", "r", "k", "e", "t", "i", "n", "g">>, industry)
            THEN 600
            ELSE IF contains(<<"m", "a", "n", "u", "f", "a", "c", "t", "u", "r", "i", "n", "g">>, industry) \/ contains(<<"p", "r", "o", "d", "u", "c", "t", "i", "o", "n">>, industry)
            THEN 500
            ELSE 0
        capped(part) == IF part < 1000 THEN part ELSE 1000
        product_score ==
            200 * relevant_items(get(company, columns, "products", <<>>),
                                 <<<<"s", "i", "g", "n", "s">>, <<"b", "a", "n", "n", "e", "r", "s">>, <<"d", "i", "s", "p", "l", "a", "y", "s">>, <<"b", "i", "l", "l", "b", "o", "a", "r", "d", "s">>, <<"w", "r", "a", "p", "s">>,
                                   <<"g", "r", "a", "p", "h", "i", "c", "s">>>>)
        material_score ==
            200 * relevant_items(get(company, columns, "materials", <<>>),
                                 <<<<"v", "i", "n", "y", "l">>, <<"p", "v", "c">>, <<"p", "l", "a", "s", "t", "i", "c">>, <<"f", "i", "l", "m">>, <<"c", "o", "m", "p", "o", "s", "i", "t", "e">>>>)
        market_score ==
            250 * relevant_items(get(company, columns, "target_markets", <<>>),
                                 <<<<"o", "u", "t", "d", "o", "o", "r", " ", "a", "d", "v", "e", "r", "t", "i", "s", "i", "n", "g">>, <<"r", "e", "t", "a", "i", "l">>, <<"e", "v", "e", "n", "t", "s">>,
                                   <<"t", "r", "a", "n", "s", "p", "o", "r", "t", "a", "t", "i", "o", "n">>>>)
        company_size == lower(str(get(company, columns, "company_size", <<>>)))
        size_part ==
            IF company_size = <<"l", "a", "r", "g", "e">> THEN 1000
            ELSE IF company_size = <<"m", "e", "d", "i", "u", "m">> THEN 800
            ELSE IF company_size = <<"s", "m", "a", "l", "l">> THEN 500
            ELSE 300
        score == industry_part + capped(product_score) + capped(material_score)
                 + capped(market_score) + size_part
    IN  round2(score, 5000)

(* f"COMP-{i:04d}"                                                         *)
company_id(i) == <<"C", "O", "M", "P", "-">> \o zero_pad(digits(i), 4)

(* The columns enrich_companies adds or replaces.                          *)
enriched_columns(columns) ==
    columns \cup {"id", "industry", "company_size", "products", "materials",
                  "target_markets", "relevance_score"}

(* Faulty variant of enrich_row: the products are extracted before the     *)
(* industry column is assigned.                                            *)
enrich_row_products_first(company, columns, i) ==
    LET c0 == IF "id" \in columns THEN company ELSE [company EXCEPT !.id = company_id(i)]
        k0 == columns \cup {"id"}
        products == extract_products(c0, k0)
        c1 == [c0 EXCEPT !.industry = extract_industry(c0, k0)]
        k1 == k0 \cup {"industry"}
        c2 == [c1 EXCEPT !.company_size = extract_company_size(c1, k1)]
        k2 == k1 \cup {"company_size"}
        c3 == [c2 EXCEPT !.products = products]
        k3 == k2 \cup {"products"}
        c4 == [c3 EXCEPT !.materials = extract_materials(c3, k3)]
        k4 == k3 \cup {"materials"}
        c5 == [c4 EXCEPT !.target_markets = extract_target_markets(c4, k4)]
        k5 == k4 \cup {"target_markets"}
    IN  [c5 EXCEPT !.relevance_score = calculate_relevance_score(c5, k5)]

(* One row through enrich_companies: each column is assigned in turn, and  *)
(* a later extraction sees the columns assigned before it.                 *)
enrich_row(company, columns, i) ==
    LET c0 == IF "id" \in columns THEN company ELSE [company EXCEPT !.id = company_id(i)]
        k0 == columns \cup {"id"}
        c1 == [c0 EXCEPT !.industry = extract_industry(c0, k0)]
        k1 == k0 \cup {"industry"}
        c2 == [c1 EXCEPT !.company_size = extract_company_size(c1, k1)]
        k2 == k1 \cup {"company_size"}
        c3 == [c2 EXCEPT !.products = extract_products(c2, k2)]
        k3 == k2 \cup {"products"}
        c4 == [c3 EXCEPT !.materials = extract_materials(c3, k3)]
        k4 == k3 \cup {"materials"}
        c5 == [c4 EXCEPT !.target_markets = extract_target_markets(c4, k4)]
        k5 == k4 \cup {"target_markets"}
    IN  [c5 EXCEPT !.relevance_score = calculate_relevance_score(c5, k5)]

enrich_companies(companies, columns) ==
    [i \in 1..Len(companies) |-> enrich_row(companies[i], columns, i)]

(***************************************************************************)
(* ISAExpoScraper._extract_revenue_and_size_info and                       *)
(* _generate_qualification_reason.  Points are in tenths (15 points = 150) *)
(* because a pattern's points are scaled by 0.8, 0.6 or 0.4; amounts of    *)
(* money are in thousands of dollars.                                      *)
(***************************************************************************)
starts_with(s, i, text) ==
    /\ i + Len(text) - 1 <= Len(s)
    /\ \A k \in 1..Len(text) : s[i + k - 1] = text[k]

(* The number of characters of a class that follow each other from i on.   *)
RECURSIVE run(_, _, _)
run(s, i, chars) ==
    IF i <= Len(s) /\ s[i] \in chars THEN 1 + run(s, i + 1, chars) ELSE 0

digit == {DigitChars[d] : d \in 1..Len(DigitChars)}

whitespace == {" "}

(* The pieces the regular expressions are made of: a literal text, \d+,    *)
(* \s* or \s+, an optional group (?:...)?, and alternatives a|b|c.         *)
lit(text) == [kind |-> "lit", text |-> text]

some_digits == [kind |-> "digits"]

spaces(least) == [kind |-> "spaces", least |-> least]

opt(pieces) == [kind |-> "opt", of |-> pieces]

alt(texts) == [kind |-> "alt", of |-> texts]

(* Where a match of the pieces that starts at i may end (the position      *)
(* after its last character); every way of backtracking is in the set.     *)
RECURSIVE ends(_, _, _)
ends(pieces, s, i) ==
    IF Len(pieces) = 0 THEN {i}
    ELSE LET p == Head(pieces)
             rest == Tail(pieces)
         IN  CASE p.kind = "lit" ->
                    IF starts_with(s, i, p.text) THEN ends(rest, s, i + Len(p.text)) ELSE {}
               [] p.kind = "digits" ->
                    UNION {ends(rest, s, i + k) : k \in 1..run(s, i, digit)}
               [] p.kind = "spaces" ->
                    UNION {ends(rest, s, i + k) : k \in p.least..run(s, i, whitespace)}
               [] p.kind = "opt" ->
                    ends(p.of \o rest, s, i) \cup ends(rest, s, i)
               [] p.kind = "alt" ->
                    UNION {IF starts_with(s, i, p.of[a])
                           THEN ends(rest, s, i + Len(p.of[a])) ELSE {} :
                           a \in 1..Len(p.of)}

largest(S) == CHOOSE x \in S : \A y \in S : y <= x

(* A pattern is what comes before its first group, the group, and what     *)
(* comes after.  Whether it matches at position i:                         *)
matches_at(pattern, s, i) ==
    \E g \in ends(pattern.before, s, i) :
        \E e \in ends(pattern.group, s, g) : ends(pattern.after, s, e) # {}

RECURSIVE first_start(_, _, _)
first_start(pattern, s, i) ==
    IF i > Len(s) THEN 0
    ELSE IF matches_at(pattern, s, i) THEN i
    ELSE first_start(pattern, s, i + 1)

(* re.findall(pattern, text)[0]: the group of the leftmost match, each     *)
(* repetition as long as the rest of the pattern allows; with it, the      *)
(* position that follows the group.                                        *)
first_match(pattern, s) ==
    LET i == first_start(pattern, s, 1)
        g == largest({x \in ends(pattern.before, s, i) :
                        \E e \in ends(pattern.group, s, x) :
                            ends(pattern.after, s, e) # {}})
        e == largest({x \in ends(pattern.group, s, g) : ends(pattern.after, s, x) # {}})
    IN  [group |-> SubSeq(s, g, e - 1), next |-> e]

(* \d+(?:\.\d+)?                                                           *)
number == <<some_digits, opt(<<lit(<<".">>), some_digits>>)>>

(* [bm](?:illion)?                                                         *)
unit == <<alt(<<<<"b">>, <<"m">>>>), opt(<<lit(<<"i", "l", "l", "i", "o", "n">>)>>)>>

revenue_patterns ==
    << [before |-> <<lit(<<"$">>)>>, group |-> number,
        after |-> <<spaces(0), lit(<<"b">>), opt(<<lit(<<"i", "l", "l", "i", "o", "n">>)>>)>>,
        unit |-> "b", score |-> 20],
       [before |-> <<>>, group |-> number,
        after |-> <<spaces(0), lit(<<"b">>), opt(<<lit(<<"i", "l", "l", "i", "o", "n">>)>>), spaces(1),
                    alt(<<<<"u", "s", "d">>, <<"$">>, <<"d", "o", "l", "l", "a", "r">>>>)>>,
        unit |-> "b", score |-> 20],
       [before |-> <<lit(<<"$">>)>>, group |-> number,
        after |-> <<spaces(0), lit(<<"m">>), opt(<<lit(<<"i", "l", "l", "i", "o", "n">>)>>)>>,
        unit |-> "m", score |-> 15],
       [before |-> <<>>, group |-> number,
        after |-> <<spaces(0), lit(<<"m">>), opt(<<lit(<<"i", "l", "l", "i", "o", "n">>)>>), spaces(1),
                    alt(<<<<"u", "s", "d">>, <<"$">>, <<"d", "o", "l", "l", "a", "r">>>>)>>,
        unit |-> "m", score |-> 15],
       [before |-> <<lit(<<"r", "e", "v", "e", "n", "u", "e">>), spaces(1), lit(<<"o", "f">>), spaces(1), lit(<<"$">>)>>,
        group |-> number, after |-> <<spaces(0)>> \o unit,
        unit |-> "group", score |-> 18],
       [before |-> <<lit(<<"a", "n", "n", "u", "a", "l">>), spaces(1), lit(<<"r", "e", "v", "e", "n", "u", "e">>), spaces(1),
                     opt(<<lit(<<"o", "f">>), spaces(1)>>), lit(<<"$">>)>>,
        group |-> number, after |-> <<spaces(0)>> \o unit,
        unit |-> "group", score |-> 18] >>

(* The patterns with a group come first; a pattern without one hands its   *)
(* whole match to a function that takes no argument.                       *)
size_patterns ==
    << [before |-> <<>>, group |-> <<some_digits, lit(<<",">>), some_digits>>,
        after |-> <<opt(<<lit(<<"+">>)>>), spaces(1), lit(<<"e", "m", "p", "l", "o", "y", "e", "e", "s">>)>>,
        groups |-> 1, score |-> 15],
       [before |-> <<>>, group |-> <<some_digits>>,
        after |-> <<opt(<<lit(<<"+">>)>>), spaces(1), lit(<<"e", "m", "p", "l", "o", "y", "e", "e", "s">>)>>,
        groups |-> 1, score |-> 15],
       [before |-> <<alt(<<<<"o", "v", "e", "r">>, <<"m", "o", "r", "e", " ", "t", "h", "a", "n">>>>), spaces(1)>>,
        group |-> <<some_digits, lit(<<",">>), some_digits>>,
        after |-> <<spaces(1), lit(<<"e", "m", "p", "l", "o", "y", "e", "e", "s">>)>>, groups |-> 1, score |-> 15],
       [before |-> <<alt(<<<<"o", "v", "e", "r">>, <<"m", "o", "r", "e", " ", "t", "h", "a", "n">>>>), spaces(1)>>,
        group |-> <<some_digits>>,
        after |-> <<spaces(1), lit(<<"e", "m", "p", "l", "o", "y", "e", "e", "s">>)>>, groups |-> 1, score |-> 15],
       [before |-> <<>>, group |-> <<lit(<<"g", "l", "o", "b", "a", "l">>), spaces(1), lit(<<"c", "o", "m", "p", "a", "n", "y">>)>>,
        after |-> <<>>, groups |-> 0, score |-> 18],
       [before |-> <<>>,
        group |-> <<lit(<<"m", "u", "l", "t", "i", "n", "a", "t", "i", "o", "n", "a", "l">>), spaces(1), lit(<<"c", "o", "r", "p", "o", "r", "a", "t", "i", "o", "n">>)>>,
        after |-> <<>>, groups |-> 0, score |-> 20],
       [before |-> <<>>, group |-> <<lit(<<"f", "o", "r", "t", "u", "n", "e">>), spaces(1), lit(<<"5", "0", "0">>)>>,
        after |-> <<>>, groups |-> 0, score |-> 20],
       [before |-> <<>>, group |-> <<lit(<<"f", "o", "r", "t", "u", "n", "e">>), spaces(1), lit(<<"1", "0", "0", "0">>)>>,
        after |-> <<>>, groups |-> 0, score |-> 18],
       [before |-> <<>>, group |-> <<lit(<<"l", "a", "r", "g", "e">>), spaces(1), lit(<<"e", "n", "t", "e", "r", "p", "r", "i", "s", "e">>)>>,
        after |-> <<>>, groups |-> 0, score |-> 15],
       [before |-> <<>>, group |-> <<alt(<<<<"m", "i", "d", "-", "s", "i", "z", "e", "d">>, <<"m", "e", "d", "i", "u", "m", "-", "s", "i", "z", "e", "d">>>>)>>,
        after |-> <<>>, groups |-> 0, score |-> 10],
       [before |-> <<>>, group |-> <<lit(<<"s", "m", "a", "l", "l">>), spaces(1), lit(<<"b", "u", "s", "i", "n", "e", "s", "s">>)>>,
        after |-> <<>>, groups |-> 0, score |-> 5] >>

(* The first pattern of the list, from the k-th on, that matches           *)
(* somewhere; 0 if none does.                                              *)
RECURSIVE first_matching(_, _, _)
first_matching(patterns, text, k) ==
    IF k > Len(patterns) THEN 0
    ELSE IF first_start(patterns[k], text, 1) > 0 THEN k
    ELSE first_matching(patterns, text, k + 1)

(* x.replace(',', '')                                                      *)
RECURSIVE without_commas(_)
without_commas(s) ==
    IF s = <<>> THEN <<>>
    ELSE (IF Head(s) = "," THEN <<>> ELSE <<Head(s)>>) \o without_commas(Tail(s))

(* float(x) of digits with an optional fraction, in thousandths (decimals  *)
(* after the third are dropped).                                           *)
thousandths(x) ==
    LET whole == run(x, 1, digit)
        fraction == SubSeq(x, whole + 2, Len(x))
        padded == SubSeq(fraction \o <<"0", "0", "0">>, 1, 3)
    IN  parse_int(SubSeq(x, 1, whole)) * 1000 + parse_int(padded)

(* float(x) * 1000000000 or float(x) * 1000000, in thousands of dollars.   *)
revenue_value(pattern, text) ==
    LET m == first_match(pattern, text)
        letter == IF pattern.unit = "group"
                  THEN text[m.next + run(text, m.next, whitespace)]
                  ELSE pattern.unit
    IN  thousandths(m.group) * (IF letter = "b" THEN 1000 ELSE 1)

(* What _extract_revenue_and_size_info makes of the text: revenue_info and *)
(* size_info (the kind of sentence and its number), revenue_score and      *)
(* size_score; or the TypeError of a size pattern without a group.         *)
revenue_and_size_info(text) ==
    LET r == first_matching(revenue_patterns, text, 1)
        value == revenue_value(revenue_patterns[r], text)
        found_revenue ==
            IF r = 0 THEN [info |-> <<>>, score |-> 0]
            ELSE IF value >= 1000000
            THEN [info |-> <<"B+ in revenue", value>>, score |-> revenue_patterns[r].score * 10]
            ELSE IF value >= 1000
            THEN [info |-> <<"M+ in revenue", value>>, score |-> revenue_patterns[r].score * 8]
            ELSE [info |-> <<>>, score |-> 0]
        revenue ==
            IF Len(found_revenue.info) > 0 THEN found_revenue
            ELSE IF any_keyword_in(<<<<"b", "i", "l", "l", "i", "o", "n">>, <<"g", "l", "o", "b", "a", "l", " ", "l", "e", "a", "d", "e", "r">>, <<"m", "a", "r", "k", "e", "t", " ", "l", "e", "a", "d", "e", "r">>>>, text)
            THEN [info |-> <<"Significant revenue", 0>>, score |-> 150]
            ELSE IF any_keyword_in(<<<<"m", "i", "l", "l", "i", "o", "n">>, <<"p", "r", "o", "f", "i", "t", "a", "b", "l", "e">>, <<"s", "u", "c", "c", "e", "s", "s", "f", "u", "l">>>>, text)
            THEN [info |-> <<"Established revenue", 0>>, score |-> 100]
            ELSE [info |-> <<>>, score |-> found_revenue.score]
        z == first_matching(size_patterns, text, 1)
        employee_count == parse_int(without_commas(first_match(size_patterns[z], text).group))
        found_size ==
            IF z = 0 THEN [info |-> <<>>, score |-> 0]
            ELSE IF employee_count >= 10000
            THEN [info |-> <<"Large global company with employees", employee_count>>,
                  score |-> size_patterns[z].score * 10]
            ELSE IF employee_count >= 1000
            THEN [info |-> <<"Large company with employees", employee_count>>,
                  score |-> size_patterns[z].score * 8]
            ELSE IF employee_count >= 250
            THEN [info |-> <<"Medium-sized company with employees", employee_count>>,
                  score |-> size_patterns[z].score * 6]
            ELSE [info |-> <<"Company with employees", employee_count>>,
                  score |-> size_patterns[z].score * 4]
        size ==
            IF Len(found_size.info) > 0 THEN found_size
            ELSE IF any_keyword_in(<<<<"g", "l", "o", "b", "a", "l">>, <<"w", "o", "r", "l", "d", "w", "i", "d", "e">>, <<"i", "n", "t", "e", "r", "n", "a", "t", "i", "o", "n", "a", "l">>, <<"m", "u", "l", "t", "i", "n", "a", "t", "i", "o", "n", "a", "l">>>>,
                                text)
            THEN [info |-> <<"Global company", 0>>, score |-> 150]
            ELSE IF any_keyword_in(<<<<"n", "a", "t", "i", "o", "n", "a", "l">>, <<"l", "e", "a", "d", "i", "n", "g">>, <<"m", "a", "j", "o", "r">>>>, text)
            THEN [info |-> <<"Major company", 0>>, score |-> 100]
            ELSE IF any_keyword_in(<<<<"g", "r", "o", "w", "i", "n", "g">>, <<"e", "x", "p", "a", "n", "d", "i", "n", "g">>>>, text)
            THEN [info |-> <<"Growing company", 0>>, score |-> 50]
            ELSE [info |-> <<>>, score |-> 0]
    IN  IF z # 0 /\ size_patterns[z].groups = 0
        THEN [error |-> "TypeError", revenue_info |-> <<>>, size_info |-> <<>>,
              revenue_score |-> 0, size_score |-> 0]
        ELSE [error |-> "none", revenue_info |-> revenue.info, size_info |-> size.info,
              revenue_score |-> revenue.score, size_score |-> size.score]

(* _extract_revenue_and_size_info: the description and the website, in     *)
(* lower case, are read as one text.                                       *)
extract_revenue_and_size_info(exhibitor) ==
    LET texts == {lower(exhibitor.description) \o <<" ">> \o lower(exhibitor.website)}
    IN  CHOOSE info \in {revenue_and_size_info(text) : text \in texts} : TRUE

(* The product categories and description terms that count, with their     *)
(* points, in the order of the dictionaries.                               *)
relevant_categories ==
    << <<<<"v", "i", "n", "y", "l">>, 25>>, <<<<"a", "d", "h", "e", "s", "i", "v", "e">>, 25>>, <<<<"g", "r", "a", "p", "h", "i", "c">>, 20>>, <<<<"s", "i", "g", "n">>, 15>>,
       <<<<"d", "i", "s", "p", "l", "a", "y">>, 15>>, <<<<"p", "r", "i", "n", "t">>, 15>>, <<<<"w", "r", "a", "p">>, 20>>, <<<<"b", "a", "n", "n", "e", "r">>, 15>>,
       <<<<"f", "i", "l", "m">>, 25>>, <<<<"l", "a", "m", "i", "n", "a", "t", "e">>, 20>>, <<<<"c", "o", "n", "s", "u", "m", "a", "b", "l", "e">>, 15>>, <<<<"m", "a", "t", "e", "r", "i", "a", "l">>, 20>>,
       <<<<"s", "u", "b", "s", "t", "r", "a", "t", "e">>, 25>>, <<<<"s", "u", "r", "f", "a", "c", "e">>, 15>> >>

relevant_description_terms ==
    << <<<<"v", "i", "n", "y", "l">>, 10>>, <<<<"f", "i", "l", "m">>, 10>>, <<<<"m", "a", "t", "e", "r", "i", "a", "l">>, 8>>, <<<<"s", "u", "b", "s", "t", "r", "a", "t", "e">>, 10>>,
       <<<<"s", "u", "r", "f", "a", "c", "e">>, 8>>, <<<<"a", "d", "h", "e", "s", "i", "v", "e">>, 10>>, <<<<"g", "r", "a", "p", "h", "i", "c">>, 8>>, <<<<"s", "i", "g", "n", "a", "g", "e">>, 5>>,
       <<<<"p", "r", "i", "n", "t", "i", "n", "g">>, 5>>, <<<<"q", "u", "a", "l", "i", "t", "y">>, 3>>, <<<<"d", "u", "r", "a", "b", "l", "e">>, 5>>, <<<<"w", "e", "a", "t", "h", "e", "r">>, 5>>,
       <<<<"o", "u", "t", "d", "o", "o", "r">>, 5>>, <<<<"i", "n", "d", "o", "o", "r">>, 3>>, <<<<"a", "p", "p", "l", "i", "c", "a", "t", "i", "o", "n">>, 3>>, <<<<"i", "n", "s", "t", "a", "l", "l", "a", "t", "i", "o", "n">>, 3>> >>

(* The loop `score = min(cap, score + points)` over the entries found in   *)
(* the text, from entry k on.                                              *)
RECURSIVE add_matching(_, _, _, _, _)
add_matching(entries, text, k, score, cap) ==
    IF k > Len(entries) THEN score
    ELSE add_matching(entries, text, k + 1,
                      IF contains(entries[k][1], text)
                      THEN (IF score + 10 * entries[k][2] < cap
                            THEN score + 10 * entries[k][2] ELSE cap)
                      ELSE score,
                      cap)

(* matching_categories / matching_terms                                    *)
matching_entries(entries, text) ==
    LET found == SelectSeq(entries, LAMBDA e : contains(e[1], text))
    IN  [k \in 1..Len(found) |-> found[k][1]]

(* str.strip()                                                             *)
RECURSIVE lstrip(_)
lstrip(s) == IF s # <<>> /\ Head(s) \in whitespace THEN lstrip(Tail(s)) ELSE s

RECURSIVE rstrip(_)
rstrip(s) ==
    IF s # <<>> /\ s[Len(s)] \in whitespace THEN rstrip(SubSeq(s, 1, Len(s) - 1)) ELSE s

strip(s) == rstrip(lstrip(s))

(* One entry of the list `reasons`: the sentence and what is filled in.    *)
reason(text, detail) == [text |-> text, detail |-> detail]

qualification_tier(score) ==
    IF score >= 800 THEN "Tier 1 (High Priority)"
    ELSE IF score >= 500 THEN "Tier 2 (Medium Priority)"
    ELSE "Tier 3 (Low Priority)"

generic_reason == reason("Exhibitor at ISA Sign Expo 2025 (graphics industry event)", <<>>)

(* Faulty variant of with_generic_reason: the generic sentence is never    *)
(* added.                                                                  *)
with_generic_reason_never(reasons) == reasons

(* The generic sentence is added when the tier line is the only reason.    *)
with_generic_reason(reasons) ==
    IF Len(reasons) <= 1 THEN Append(reasons, generic_reason) ELSE reasons

(***************************************************************************)
(* Input batches.  A company table comes out of collection with duplicates *)
(* removed on (name, website) only, so two rows may share a name.          *)
(***************************************************************************)
CompanyCatalog ==
    { [name |-> <<"A", "c", "m", "e">>, website |-> "acme.com",
       description |-> <<"S", "i", "g", "n", " ", "s", "h", "o", "p">>,
       industry |-> <<"S", "i", "g", "n", "a", "g", "e">>, company_size |-> <<"L", "a", "r", "g", "e">>, employees |-> NaN,
       products |-> <<>>, materials |-> <<>>, target_markets |-> <<<<"R", "e", "t", "a", "i", "l">>>>],
      [name |-> <<"A", "c", "m", "e">>, website |-> "acme.io",
       description |-> <<"V", "i", "n", "y", "l", " ", "b", "a", "n", "n", "e", "r", "s">>,
       industry |-> <<"P", "r", "i", "n", "t", "i", "n", "g">>, company_size |-> <<"S", "m", "a", "l", "l">>, employees |-> NaN,
       products |-> <<<<"B", "a", "n", "n", "e", "r", "s">>, <<"V", "e", "h", "i", "c", "l", "e", " ", "W", "r", "a", "p", "s">>, <<"B", "i", "l", "l", "b", "o", "a", "r", "d", "s">>, <<"W", "i", "n", "d", "o", "w", " ", "G", "r", "a", "p", "h", "i", "c", "s">>>>,
       materials |-> <<<<"V", "i", "n", "y", "l">>, <<"P", "V", "C", " ", "f", "i", "l", "m">>>>, target_markets |-> <<<<"E", "v", "e", "n", "t", "s">>>>],
      [name |-> <<"B", "e", "t", "a">>, website |-> "beta.com",
       description |-> <<"A", "c", "c", "o", "u", "n", "t", "i", "n", "g", " ", "s", "o", "f", "t", "w", "a", "r", "e">>,
       industry |-> <<"S", "o", "f", "t", "w", "a", "r", "e">>, company_size |-> <<"M", "i", "c", "r", "o">>, employees |-> NaN,
       products |-> <<>>, materials |-> <<>>, target_markets |-> <<>>],
      [name |-> <<"C", "o", "r", "e", "x">>, website |-> "corex.com",
       description |-> <<"P", "a", "c", "k", "a", "g", "i", "n", "g">>,
       industry |-> <<"M", "a", "n", "u", "f", "a", "c", "t", "u", "r", "i", "n", "g">>, company_size |-> <<"M", "e", "d", "i", "u", "m">>, employees |-> NaN,
       products |-> <<<<"B", "o", "x", "e", "s">>>>, materials |-> <<>>, target_markets |-> <<>>] }

required_company_columns == {"name", "website", "description"}

optional_company_columns ==
    {"industry", "company_size", "products", "materials", "target_markets"}

StakeholderNames == <<"Jo", "Sam", "Lee", "Kim", "Ash">>

(* Rows of a table without a decision_making_power column.                 *)
TitledStakeholders ==
    { [title |-> <<"C", "E", "O">>, company |-> <<"A", "c", "m", "e">>],
      [title |-> <<"E", "n", "g", "i", "n", "e", "e", "r">>, company |-> <<"B", "e", "t", "a">>],
      [title |-> <<"S", "a", "l", "e", "s", " ", "M", "a", "n", "a", "g", "e", "r">>, company |-> <<"C", "o", "r", "e", "x">>],
      [title |-> <<"S", "a", "l", "e", "s", " ", "M", "a", "n", "a", "g", "e", "r">>, company |-> <<"a", "c", "m", "e">>] }

(* Rows of a table that carries decision_making_power.                     *)
RatedStakeholders ==
    { [title |-> <<"B", "u", "y", "e", "r">>, company |-> <<"A", "c", "m", "e">>, decision_making_power |-> 900],
      [title |-> <<"B", "u", "y", "e", "r">>, company |-> <<"B", "e", "t", "a">>, decision_making_power |-> 500],
      [title |-> <<"B", "u", "y", "e", "r">>, company |-> <<"N", "o", "n", "e", "x", "i", "s", "t", "e", "n", "t">>, decision_making_power |-> 1500] }

required_stakeholder_columns == {"name", "title", "company"}

optional_stakeholder_columns == {"email", "linkedin_url"}

(* The optional columns a batch may lack.                                  *)
AbsentColumnChoices == {{}, {"target_markets"}, {"industry"}, {"email", "linkedin_url"}}

company_row(c, columns) ==
    [f \in DOMAIN c |->
        IF f \in columns \/ f = "employees" THEN c[f] ELSE <<>>]

stakeholder_row(s, i, columns) ==
    [name |-> StakeholderNames[i], title |-> s.title, company |-> s.company,
     email |-> IF "email" \in columns THEN "contact@example.com" ELSE "",
     linkedin_url |-> IF "linkedin_url" \in columns THEN "linkedin.com/in/contact" ELSE "",
     decision_making_power |->
        IF "decision_making_power" \in columns THEN s.decision_making_power ELSE NaN]

VARIABLES
    pc,                     \* where score_leads stands
    weights,                \* self.weights
    companies_df,           \* the caller's company table (rows)
    company_columns,        \* ... and its columns
    stakeholders_df,        \* the caller's stakeholder table (rows)
    stakeholder_columns,    \* ... and its columns
    scored_companies_df,    \* result of _score_companies
    scored_stakeholders_df, \* result of _score_stakeholders
    leads_df,               \* result of _generate_leads (rows)
    leads_index,            \* ... its index: positions in the merged frame
    leads_columns,          \* ... its columns, in order
    error,                  \* the exception score_leads raised, if any
    argsort_results,        \* the orders the sort has returned, by key column
    first_run,              \* what an earlier call on the same batches returned
    enriched_df,            \* result of enrich_companies (rows)
    enriched_again_df,      \* result of enrich_companies on its own result
    exhibitor,              \* the exhibitor dict handed to _generate_qualification_reason
    qualification_score,    \* ... its local `score`, in tenths of a point
    reasons,                \* ... its local list `reasons`
    qualification_reason,   \* ... what it returned: the reasons joined by " | "
    openai_api_key,         \* MessageGenerator.openai_api_key
    result_df,              \* result_df of generate_messages_for_stakeholders
    idx,                    \* ... the rows its loop has been through
    attempts                \* calls of generate_personalized_message, by row

vars ==
    <<pc, weights, companies_df, company_columns, stakeholders_df, stakeholder_columns,
      scored_companies_df, scored_stakeholders_df, leads_df, leads_index, leads_columns,
      error, argsort_results, first_run, enriched_df, enriched_again_df,
      exhibitor, qualification_score, reasons, qualification_reason,
      openai_api_key, result_df, idx, attempts>>

inputs == <<weights, companies_df, company_columns, stakeholders_df, stakeholder_columns>>

(* What score_leads returns, or the exception it raised.                  *)
outputs ==
    [scored_companies_df |-> scored_companies_df,
     scored_stakeholders_df |-> scored_stakeholders_df,
     leads_df |-> leads_df, leads_index |-> leads_index,
     leads_columns |-> leads_columns, error |-> error]

enriched == <<enriched_df, enriched_again_df>>

qualification == <<exhibitor, qualification_score, reasons, qualification_reason>>

messages == <<openai_api_key, result_df, idx, attempts>>

(* No exhibitor is being qualified.                                        *)
not_qualifying ==
    /\ exhibitor = <<>>
    /\ qualification_score = 0
    /\ reasons = <<>>
    /\ qualification_reason = <<>>

(* No messages are being generated.                                        *)
not_messaging ==
    /\ openai_api_key = ""
    /\ result_df = <<>>
    /\ idx = 0
    /\ attempts = <<>>

scored_company_columns == company_columns \cup score_columns

scored_stakeholder_columns ==
    stakeholder_columns \cup {"decision_making_power", "company_score", "stakeholder_score"}

Init ==
    /\ pc = "start"
    /\ weights \in ScoringWeightConfigs
    /\ \E absent \in AbsentColumnChoices :
        /\ company_columns =
              required_company_columns \cup (optional_company_columns \ absent)
        /\ \E rated \in BOOLEAN :
              stakeholder_columns =
                  required_stakeholder_columns
                  \cup (optional_stakeholder_columns \ absent)
                  \cup (IF rated THEN {"decision_making_power"} ELSE {})
    /\ \E n \in 0..MaxCompanies :
          \E t \in [1..n -> CompanyCatalog] :
              /\ \A i, j \in 1..n : i # j => t[i] # t[j]
              /\ companies_df = [i \in 1..n |-> company_row(t[i], company_columns)]
    /\ \E n \in 0..MaxStakeholders :
          \E t \in [1..n -> IF "decision_making_power" \in stakeholder_columns
                            THEN RatedStakeholders ELSE TitledStakeholders] :
              stakeholders_df = [i \in 1..n |-> stakeholder_row(t[i], i, stakeholder_columns)]
    /\ scored_companies_df = <<>>
    /\ scored_stakeholders_df = <<>>
    /\ leads_df = <<>>
    /\ leads_index = <<>>
    /\ leads_columns = <<>>
    /\ error = "none"
    /\ argsort_results = {}
    /\ first_run = <<>>
    /\ enriched_df = <<>>
    /\ enriched_again_df = <<>>
    /\ not_qualifying
    /\ not_messaging

(* score_leads, line 54.                                                   *)
ScoreCompanies ==
    /\ pc = "start"
    /\ scored_companies_df' = score_companies(companies_df, company_columns, weights)
    /\ pc' = "companies_scored"
    /\ UNCHANGED <<inputs, scored_stakeholders_df, leads_df, leads_index, leads_columns,
                   error, argsort_results, first_run, enriched, qualification,
                   messages>>

(* score_leads, line 57.  A decision_making_power column that holds a     *)
(* label cannot be multiplied by the weight (line 145): TypeError.         *)
ScoreStakeholders ==
    /\ pc = "companies_scored"
    /\ IF /\ "decision_making_power" \in stakeholder_columns
          /\ \E i \in 1..Len(stakeholders_df) :
                is_label(stakeholders_df[i].decision_making_power)
       THEN /\ pc' = "error"
            /\ error' = "TypeError"
            /\ UNCHANGED scored_stakeholders_df
       ELSE /\ scored_stakeholders_df' =
                  score_stakeholders(stakeholders_df, stakeholder_columns,
                                     scored_companies_df, scored_company_columns, weights)
            /\ pc' = "stakeholders_scored"
            /\ error' = error
    /\ UNCHANGED <<inputs, scored_companies_df, leads_df, leads_index, leads_columns,
                   argsort_results, first_run, enriched, qualification,
                   messages>>

(* Faulty variant of sort_outcomes: the order of equal keys is drawn anew  *)
(* at every call.                                                          *)
sort_outcomes_drawn_anew(results, keys) == sort_orders(keys, 1..Len(keys))

(* The orders one call of sort_values may return for a key column.  The    *)
(* sort is an algorithm without randomness: whatever order it gave to a    *)
(* key column, it gives again when handed the same column.                 *)
sort_outcomes(results, keys) ==
    LET seen == {r \in results : r[1] = keys}
    IN  IF seen = {} THEN sort_orders(keys, 1..Len(keys)) ELSE {r[2] : r \in seen}

(* score_leads, lines 60-66: _generate_leads, the export, the return.      *)
(* Selecting a column the scored company table lacks raises KeyError.      *)
GenerateLeads ==
    /\ pc = "stakeholders_scored"
    /\ IF merge_company_columns \subseteq scored_company_columns
       THEN LET merged == merged_rows(scored_stakeholders_df, scored_companies_df)
                keys == seq_of([k \in 1..Len(merged) |-> merged[k].lead_score])
                out_columns == existing_columns(scored_stakeholder_columns)
            IN  \E order \in sort_outcomes(argsort_results, keys) :
                  /\ leads_df' = leads_frame(merged, order, out_columns)
                  /\ leads_index' = [k \in 1..Len(order) |-> order[k] - 1]
                  /\ leads_columns' = out_columns
                  /\ argsort_results' = argsort_results \cup {<<keys, order>>}
                  /\ pc' = "done"
                  /\ error' = error
       ELSE /\ pc' = "error"
            /\ error' = "KeyError"
            /\ UNCHANGED <<leads_df, leads_index, leads_columns, argsort_results>>
    /\ UNCHANGED <<inputs, scored_companies_df, scored_stakeholders_df, first_run, enriched,
                   qualification, messages>>

(* A second call of score_leads with the same tables and weights, after    *)
(* the first has returned or raised.                                       *)
ScoreAgain ==
    /\ pc \in {"done", "error"}
    /\ first_run = <<>>
    /\ first_run' = <<outputs>>
    /\ pc' = "start"
    /\ scored_companies_df' = <<>>
    /\ scored_stakeholders_df' = <<>>
    /\ leads_df' = <<>>
    /\ leads_index' = <<>>
    /\ leads_columns' = <<>>
    /\ error' = "none"
    /\ UNCHANGED <<inputs, argsort_results, enriched, qualification, messages>>

Next == ScoreCompanies \/ ScoreStakeholders \/ GenerateLeads

Spec == Init /\ [][Next]_vars

NextRerun == ScoreCompanies \/ ScoreStakeholders \/ GenerateLeads \/ ScoreAgain

RerunSpec == Init /\ [][NextRerun]_vars


(***************************************************************************)
(* Single records: batches of one company whose size, industry or product  *)
(* and material cells vary, alone or followed by a well-formed row.        *)
(***************************************************************************)
MaxItems == 4

(* The lists of at most n items of a set.                                  *)
lists_of(items, n) == UNION {[1..k -> items] : k \in 0..n}

SizeValues == {<<"L", "a", "r", "g", "e">>, <<"M", "e", "d", "i", "u", "m">>, <<"S", "m", "a", "l", "l">>, <<"M", "i", "c", "r", "o">>, <<"L", "A", "R", "G", "E">>, <<"E", "n", "t", "e", "r", "p", "r", "i", "s", "e">>, <<>>, None}

EmployeeCounts == {NaN, 0, 9, 10, 49, 50, 249, 250, 999, 1000}

IndustryValues ==
    {<<"S", "i", "g", "n", "a", "g", "e">>, <<"S", "i", "g", "n", " ", "M", "a", "n", "u", "f", "a", "c", "t", "u", "r", "i", "n", "g">>, <<"D", "i", "s", "p", "l", "a", "y">>, <<"G", "r", "a", "p", "h", "i", "c", " ", "A", "r", "t", "s">>, <<"P", "r", "i", "n", "t", "i", "n", "g">>,
     <<"A", "d", "v", "e", "r", "t", "i", "s", "i", "n", "g">>, <<"M", "a", "r", "k", "e", "t", "i", "n", "g">>, <<"M", "e", "d", "i", "a">>, <<"V", "i", "s", "u", "a", "l">>, <<"D", "e", "s", "i", "g", "n">>, <<"E", "x", "h", "i", "b", "i", "t", "i", "o", "n">>,
     <<"M", "a", "n", "u", "f", "a", "c", "t", "u", "r", "i", "n", "g">>, <<"P", "r", "o", "d", "u", "c", "t", "i", "o", "n">>, <<"R", "e", "t", "a", "i", "l">>, <<"C", "o", "n", "s", "t", "r", "u", "c", "t", "i", "o", "n">>, <<"S", "o", "f", "t", "w", "a", "r", "e">>,
     <<>>, None, float_nan}

ProductItems == {<<"B", "a", "n", "n", "e", "r", "s">>, <<"B", "o", "x", "e", "s">>}

MaterialItems == {<<"V", "i", "n", "y", "l">>, <<"P", "a", "p", "e", "r">>}

BaseCompany ==
    [name |-> <<"A", "c", "m", "e">>, website |-> "acme.com", description |-> <<"P", "a", "c", "k", "a", "g", "i", "n", "g">>,
     industry |-> <<"S", "o", "f", "t", "w", "a", "r", "e">>, company_size |-> <<"S", "m", "a", "l", "l">>, employees |-> NaN,
     products |-> <<>>, materials |-> <<>>, target_markets |-> <<<<"R", "e", "t", "a", "i", "l">>>>]

CompanyRecords ==
    {[BaseCompany EXCEPT !.company_size = s, !.employees = n] :
        s \in SizeValues, n \in EmployeeCounts}
    \cup {[BaseCompany EXCEPT !.industry = i] : i \in IndustryValues}
    \cup {[BaseCompany EXCEPT !.products = p, !.materials = m] :
            p \in lists_of(ProductItems, MaxItems), m \in lists_of(MaterialItems, MaxItems)}

WellFormedCompany == CHOOSE c \in CompanyCatalog : c.website = "corex.com"

all_company_columns == required_company_columns \cup optional_company_columns \cup {"employees"}

(* The columns a one-record table may lack.                                *)
RecordColumnChoices ==
    {all_company_columns \ absent :
        absent \in {{}, {"employees"}, {"company_size"}, {"industry"}}}

(* One company with exactly a name, a size, an industry, products and      *)
(* materials, and its chief executive.                                     *)
ScenarioCompany ==
    [BaseCompany EXCEPT !.company_size = <<"L", "a", "r", "g", "e">>, !.industry = <<"S", "i", "g", "n", "a", "g", "e">>,
                        !.products = <<<<"B", "a", "n", "n", "e", "r", "s">>>>, !.materials = <<<<"V", "i", "n", "y", "l">>>>]

ScenarioCompanyColumns == {"name", "company_size", "industry", "products", "materials"}

ScenarioStakeholder == [title |-> <<"C", "E", "O">>, company |-> <<"A", "c", "m", "e">>]

is_scenario ==
    /\ company_columns = ScenarioCompanyColumns
    /\ companies_df = <<company_row(ScenarioCompany, ScenarioCompanyColumns)>>
    /\ stakeholder_columns = required_stakeholder_columns
    /\ stakeholders_df =
          <<stakeholder_row(ScenarioStakeholder, 1, required_stakeholder_columns)>>

RecordInit ==
    /\ pc = "start"
    /\ weights \in ScoringWeightConfigs
    /\ \/ is_scenario
       \/ /\ company_columns \in RecordColumnChoices
          /\ \E r \in CompanyRecords, followed \in BOOLEAN :
                companies_df =
                    <<company_row(r, company_columns)>>
                    \o (IF followed
                        THEN <<company_row(WellFormedCompany, company_columns)>>
                        ELSE <<>>)
          /\ stakeholder_columns =
                required_stakeholder_columns \cup optional_stakeholder_columns
          /\ stakeholders_df =
                <<stakeholder_row(ScenarioStakeholder, 1, stakeholder_columns)>>
    /\ scored_companies_df = <<>>
    /\ scored_stakeholders_df = <<>>
    /\ leads_df = <<>>
    /\ leads_index = <<>>
    /\ leads_columns = <<>>
    /\ error = "none"
    /\ argsort_results = {}
    /\ first_run = <<>>
    /\ enriched_df = <<>>
    /\ enriched_again_df = <<>>
    /\ not_qualifying
    /\ not_messaging

RecordSpec == RecordInit /\ [][Next]_vars

(***************************************************************************)
(* Collected company tables, before enrichment.                            *)
(***************************************************************************)
Descriptions ==
    {<<"V", "i", "n", "y", "l", " ", "b", "a", "n", "n", "e", "r", "s", " ", "a", "n", "d", " ", "s", "i", "g", "n", "s", " ", "f", "o", "r", " ", "r", "e", "t", "a", "i", "l", " ", "s", "t", "o", "r", "e", "s">>, <<"F", "a", "m", "i", "l", "y", " ", "d", "e", "s", "i", "g", "n", " ", "s", "t", "u", "d", "i", "o">>,
     <<"G", "l", "o", "b", "a", "l", " ", "p", "r", "i", "n", "t", "i", "n", "g", " ", "h", "o", "u", "s", "e">>, <<"D", "u", "r", "a", "b", "l", "e", " ", "o", "u", "t", "d", "o", "o", "r", " ", "f", "i", "l", "m">>, <<"A", "c", "c", "o", "u", "n", "t", "i", "n", "g", " ", "s", "o", "f", "t", "w", "a", "r", "e">>, <<>>, None}

Websites == {<<>>, <<"w", "w", "w", ".", "b", "r", "a", "n", "d", "m", "e", "d", "i", "a", ".", "c", "o", "m">>}

IndustryCells == {None, <<>>, <<"P", "r", "i", "n", "t", "i", "n", "g">>, <<"R", "e", "t", "a", "i", "l", " ", "D", "i", "s", "p", "l", "a", "y", "s">>}

EmployeeCells == {NaN, 0, 5, 300}

RevenueCells == {NaN, 2000000}

SizeCells == {None, <<"L", "a", "r", "g", "e">>}

ProductCells == {<<>>, <<<<"B", "o", "x", "e", "s">>>>}

(* A collected row; given products come with given materials and markets. *)
RawCompanies ==
    {[name |-> <<"A", "c", "m", "e">>, website |-> w, description |-> d, industry |-> i,
      employees |-> n, annual_revenue |-> r, company_size |-> s, products |-> p,
      materials |-> IF p = <<>> THEN <<>> ELSE <<<<"C", "a", "r", "d", "b", "o", "a", "r", "d">>>>,
      target_markets |-> IF p = <<>> THEN <<>> ELSE <<<<"L", "o", "g", "i", "s", "t", "i", "c", "s">>>>,
      id |-> <<>>, relevance_score |-> NaN] :
        w \in Websites, d \in Descriptions, i \in IndustryCells, n \in EmployeeCells,
        r \in RevenueCells, s \in SizeCells, p \in ProductCells}

SecondRawCompany ==
    [name |-> <<"B", "e", "t", "a">>, website |-> <<"b", "e", "t", "a", ".", "c", "o", "m">>, description |-> <<"E", "x", "h", "i", "b", "i", "t", "s", " ", "a", "n", "d", " ", "d", "i", "s", "p", "l", "a", "y", "s">>,
     industry |-> None, employees |-> NaN, annual_revenue |-> NaN, company_size |-> None,
     products |-> <<>>, materials |-> <<>>, target_markets |-> <<>>,
     id |-> <<>>, relevance_score |-> NaN]

extracted_columns == {"industry", "company_size", "products", "materials", "target_markets"}

raw_company_columns ==
    required_company_columns \cup extracted_columns \cup {"employees", "annual_revenue"}

(* The columns a collected table may lack.                                 *)
RawAbsentChoices ==
    {{}, {"industry"}, {"employees", "annual_revenue"},
     {"company_size", "products", "materials", "target_markets"},
     extracted_columns \cup {"employees", "annual_revenue"}}

raw_row(c, columns) ==
    [f \in DOMAIN c |->
        IF f \in columns THEN c[f]
        ELSE IF f \in {"employees", "annual_revenue", "relevance_score"} THEN NaN
        ELSE <<>>]

EnrichInit ==
    /\ pc = "collected"
    /\ weights \in ScoringWeightConfigs
    /\ \E absent \in RawAbsentChoices : company_columns = raw_company_columns \ absent
    /\ \E r \in RawCompanies, followed \in BOOLEAN :
          companies_df =
              <<raw_row(r, company_columns)>>
              \o (IF followed THEN <<raw_row(SecondRawCompany, company_columns)>> ELSE <<>>)
    /\ stakeholder_columns = required_stakeholder_columns
    /\ stakeholders_df = <<>>
    /\ scored_companies_df = <<>>
    /\ scored_stakeholders_df = <<>>
    /\ leads_df = <<>>
    /\ leads_index = <<>>
    /\ leads_columns = <<>>
    /\ error = "none"
    /\ argsort_results = {}
    /\ first_run = <<>>
    /\ enriched_df = <<>>
    /\ enriched_again_df = <<>>
    /\ not_qualifying
    /\ not_messaging

scoring == <<scored_companies_df, scored_stakeholders_df, leads_df, leads_index,
             leads_columns, error, argsort_results, first_run>>

(* enrich_companies on the collected table.                                *)
EnrichCompanies ==
    /\ pc = "collected"
    /\ enriched_df' = enrich_companies(companies_df, company_columns)
    /\ pc' = "enriched"
    /\ UNCHANGED <<inputs, scoring, enriched_again_df, qualification, messages>>

(* enrich_companies on the table it returned.                              *)
EnrichAgain ==
    /\ pc = "enriched"
    /\ enriched_again_df' = enrich_companies(enriched_df, enriched_columns(company_columns))
    /\ pc' = "enriched_again"
    /\ UNCHANGED <<inputs, scoring, enriched_df, qualification, messages>>

NextEnrich == EnrichCompanies \/ EnrichAgain

EnrichSpec == EnrichInit /\ [][NextEnrich]_vars

(***************************************************************************)
(* Stakeholder records: batches whose titles or decision_making_power      *)
(* cells vary, scored against a table of two companies.                    *)
(***************************************************************************)
TitleValues ==
    {<<"C", "E", "O">>, <<"C", "h", "i", "e", "f", " ", "E", "n", "g", "i", "n", "e", "e", "r">>, <<"P", "r", "e", "s", "i", "d", "e", "n", "t">>, <<"O", "w", "n", "e", "r">>, <<"F", "o", "u", "n", "d", "e", "r">>, <<"M", "a", "n", "a", "g", "i", "n", "g", " ", "D", "i", "r", "e", "c", "t", "o", "r">>,
     <<"D", "i", "r", "e", "c", "t", "o", "r">>, <<"V", "P">>, <<"V", "i", "c", "e", " ", "P", "r", "e", "s", "i", "d", "e", "n", "t">>, <<"H", "e", "a", "d", " ", "o", "f", " ", "S", "a", "l", "e", "s">>,
     <<"M", "a", "r", "k", "e", "t", "i", "n", "g", " ", "M", "a", "n", "a", "g", "e", "r">>, <<"T", "e", "a", "m", " ", "L", "e", "a", "d">>, <<"S", "e", "n", "i", "o", "r", " ", "B", "u", "y", "e", "r">>, <<"P", "r", "i", "n", "c", "i", "p", "a", "l">>,
     <<"E", "n", "g", "i", "n", "e", "e", "r">>, <<>>, None, float_nan}

(* What a decision_making_power cell may hold: a number, nothing, a label. *)
PowerCells == {0, 500, 1000, NaN, High}

(* Rows of a table without a decision_making_power column.                 *)
TitleRecords == {[title |-> t, company |-> <<"A", "c", "m", "e">>] : t \in TitleValues}

(* Rows of a table with one.                                               *)
PowerRecords ==
    {[title |-> t, company |-> c, decision_making_power |-> p] :
        t \in {<<"C", "E", "O">>, <<"E", "n", "g", "i", "n", "e", "e", "r">>}, c \in {<<"A", "c", "m", "e">>, <<"B", "e", "t", "a">>}, p \in PowerCells}

StakeholderCompanies ==
    <<CHOOSE c \in CompanyCatalog : c.website = "acme.com", CHOOSE c \in CompanyCatalog : c.website = "beta.com">>

(* Weight configurations: the two of the scoring runs and one whose        *)
(* decision_making_power weight exceeds 1, so that 1 - weight is negative. *)
StakeholderWeightConfigs ==
    ScoringWeightConfigs
    \cup { [company_size |-> 40, industry_relevance |-> 40, product_fit |-> 20,
            decision_making_power |-> 150] }

StakeholderInit ==
    /\ pc = "start"
    /\ weights \in StakeholderWeightConfigs
    /\ company_columns = required_company_columns \cup optional_company_columns
    /\ companies_df =
          [i \in 1..Len(StakeholderCompanies) |->
              company_row(StakeholderCompanies[i], company_columns)]
    /\ \E rated \in BOOLEAN :
        /\ stakeholder_columns =
              required_stakeholder_columns \cup optional_stakeholder_columns
              \cup (IF rated THEN {"decision_making_power"} ELSE {})
        /\ \E n \in 1..MaxStakeholders :
              \E t \in [1..n -> IF rated THEN PowerRecords ELSE TitleRecords] :
                  stakeholders_df =
                      [i \in 1..n |-> stakeholder_row(t[i], i, stakeholder_columns)]
    /\ scored_companies_df = <<>>
    /\ scored_stakeholders_df = <<>>
    /\ leads_df = <<>>
    /\ leads_index = <<>>
    /\ leads_columns = <<>>
    /\ error = "none"
    /\ argsort_results = {}
    /\ first_run = <<>>
    /\ enriched_df = <<>>
    /\ enriched_again_df = <<>>
    /\ not_qualifying
    /\ not_messaging

StakeholderSpec == StakeholderInit /\ [][Next]_vars

(***************************************************************************)
(* Qualification of one exhibitor: _generate_qualification_reason, step by *)
(* step.  The description is put together from a sentence about the        *)
(* products, one about revenue and one about size.                         *)
(***************************************************************************)
ProductCategoryTexts ==
    {<<>>, <<"G", "r", "a", "p", "h", "i", "c", "s">>, <<"S", "i", "g", "n", "s">>, <<"V", "i", "n", "y", "l", ";", " ", "A", "d", "h", "e", "s", "i", "v", "e", ";", " ", "F", "i", "l", "m">>, <<"H", "a", "r", "d", "w", "a", "r", "e">>}

TermTexts == {<<>>, <<"Q", "u", "a", "l", "i", "t", "y", " ", "v", "i", "n", "y", "l">>, <<"D", "u", "r", "a", "b", "l", "e", " ", "o", "u", "t", "d", "o", "o", "r", " ", "v", "i", "n", "y", "l", " ", "f", "i", "l", "m", " ", "f", "o", "r", " ", "s", "i", "g", "n", "a", "g", "e">>}

RevenueTexts ==
    {<<>>, <<"$", "2", " ", "b", "i", "l", "l", "i", "o", "n", " ", "i", "n", " ", "s", "a", "l", "e", "s">>, <<"2", ".", "5", " ", "b", "i", "l", "l", "i", "o", "n", " ", "U", "S", "D">>, <<"$", "5", " ", "m", "i", "l", "l", "i", "o", "n", " ", "i", "n", " ", "s", "a", "l", "e", "s">>, <<"$", "0", ".", "5", "m">>,
     <<"m", "a", "r", "k", "e", "t", " ", "l", "e", "a", "d", "e", "r">>, <<"p", "r", "o", "f", "i", "t", "a", "b", "l", "e">>}

SizeTexts ==
    {<<>>, <<"1", "0", ",", "0", "0", "0", " ", "e", "m", "p", "l", "o", "y", "e", "e", "s">>, <<"2", ",", "5", "0", "0", "+", " ", "e", "m", "p", "l", "o", "y", "e", "e", "s">>, <<"5", "0", "0", " ", "e", "m", "p", "l", "o", "y", "e", "e", "s">>, <<"4", "0", " ", "e", "m", "p", "l", "o", "y", "e", "e", "s">>,
     <<"F", "o", "r", "t", "u", "n", "e", " ", "5", "0", "0">>, <<"w", "o", "r", "l", "d", "w", "i", "d", "e">>, <<"a", " ", "l", "e", "a", "d", "i", "n", "g", " ", "s", "u", "p", "p", "l", "i", "e", "r">>, <<"g", "r", "o", "w", "i", "n", "g">>}

BoothTexts == {<<>>, <<"B", "1", "2">>, <<" ">>}

WebsiteTexts == {<<>>, <<"h", "t", "t", "p", "s", ":", "/", "/", "a", "c", "m", "e", ".", "c", "o", "m">>}

PhoneTexts == {<<>>, <<"5", "5", "5", "-", "1", "2", "3", "-", "4", "5", "6", "7">>}

(* ', '.join of the sentences that are not empty.                          *)
RECURSIVE sentences(_)
sentences(parts) ==
    IF parts = <<>> THEN <<>>
    ELSE LET rest == sentences(Tail(parts))
         IN  IF Head(parts) = <<>> THEN rest
             ELSE IF rest = <<>> THEN Head(parts)
             ELSE Head(parts) \o <<",", " ">> \o rest

Exhibitors ==
    {[product_categories |-> c, description |-> sentences(<<t, r, z>>),
      booth |-> b, website |-> w, phone |-> p] :
        c \in ProductCategoryTexts, t \in TermTexts, r \in RevenueTexts, z \in SizeTexts,
        b \in BoothTexts, w \in WebsiteTexts, p \in PhoneTexts}

(* No scorer has been constructed and no table collected.                 *)
scoring_idle ==
    /\ weights = <<>>
    /\ companies_df = <<>>
    /\ company_columns = required_company_columns
    /\ stakeholders_df = <<>>
    /\ stakeholder_columns = required_stakeholder_columns
    /\ scored_companies_df = <<>>
    /\ scored_stakeholders_df = <<>>
    /\ leads_df = <<>>
    /\ leads_index = <<>>
    /\ leads_columns = <<>>
    /\ argsort_results = {}
    /\ first_run = <<>>
    /\ enriched_df = <<>>
    /\ enriched_again_df = <<>>

QualifyInit ==
    /\ pc = "qualify"
    /\ error = "none"
    /\ exhibitor \in Exhibitors
    /\ qualification_score = 0
    /\ reasons = <<>>
    /\ qualification_reason = <<>>
    /\ scoring_idle
    /\ not_messaging

others == <<inputs, scored_companies_df, scored_stakeholders_df, leads_df, leads_index,
            leads_columns, argsort_results, first_run, enriched, messages>>

(* Lines 442-474: the product categories, at most 50 points.               *)
CheckProductCategories ==
    /\ pc = "qualify"
    /\ LET product_text == lower(exhibitor.product_categories)
           matching_categories == matching_entries(relevant_categories, product_text)
       IN  IF exhibitor.product_categories # <<>>
           THEN /\ qualification_score' =
                      add_matching(relevant_categories, product_text, 1,
                                   qualification_score, 500)
                /\ reasons' =
                      IF matching_categories # <<>>
                      THEN Append(reasons, reason("Offers products in relevant categories",
                                                  matching_categories))
                      ELSE reasons
           ELSE UNCHANGED <<qualification_score, reasons>>
    /\ pc' = "categories_checked"
    /\ UNCHANGED <<exhibitor, qualification_reason, error, others>>

(* Lines 476-507: the terms of the description, the running score held at  *)
(* 30 points.                                                              *)
CheckDescription ==
    /\ pc = "categories_checked"
    /\ LET desc_text == lower(exhibitor.description)
           matching_terms == matching_entries(relevant_description_terms, desc_text)
       IN  IF exhibitor.description # <<>>
           THEN /\ qualification_score' =
                      add_matching(relevant_description_terms, desc_text, 1,
                                   qualification_score, 300)
                /\ reasons' =
                      IF matching_terms # <<>>
                      THEN Append(reasons,
                                  reason("Company description mentions relevant terms",
                                         matching_terms))
                      ELSE reasons
           ELSE UNCHANGED <<qualification_score, reasons>>
    /\ pc' = "description_checked"
    /\ UNCHANGED <<exhibitor, qualification_reason, error, others>>

(* Lines 509-520: revenue and size; the TypeError of the extraction is not *)
(* caught here.                                                            *)
AddRevenueAndSize ==
    /\ pc = "description_checked"
    /\ \E info \in {extract_revenue_and_size_info(exhibitor)} :
          LET with_revenue ==
                  IF Len(info.revenue_info) > 0
                  THEN Append(reasons,
                              reason(info.revenue_info[1], <<info.revenue_info[2]>>))
                  ELSE reasons
          IN  IF info.error # "none"
              THEN /\ pc' = "error"
                   /\ error' = info.error
                   /\ UNCHANGED <<qualification_score, reasons>>
              ELSE /\ pc' = "revenue_size_added"
                   /\ error' = error
                   /\ qualification_score' =
                         qualification_score
                         + (IF Len(info.revenue_info) > 0 THEN info.revenue_score ELSE 0)
                         + (IF Len(info.size_info) > 0 THEN info.size_score ELSE 0)
                   /\ reasons' =
                         IF Len(info.size_info) > 0
                         THEN Append(with_revenue,
                                     reason(info.size_info[1], <<info.size_info[2]>>))
                         ELSE with_revenue
    /\ UNCHANGED <<exhibitor, qualification_reason, others>>

(* Lines 522-550: booth, website, phone, the tier line, the generic        *)
(* sentence, and the return.                                               *)
FinishQualification ==
    /\ pc = "revenue_size_added"
    /\ LET has(field) == strip(exhibitor[field]) # <<>>
           score == qualification_score
                    + (IF has("booth") THEN 100 ELSE 0)
                    + (IF has("website") THEN 50 ELSE 0)
                    + (IF has("phone") THEN 50 ELSE 0)
           with_booth ==
               IF has("booth")
               THEN Append(reasons, reason("Confirmed exhibitor with booth", exhibitor.booth))
               ELSE reasons
           with_website ==
               IF has("website")
               THEN Append(with_booth, reason("Has website for further qualification", <<>>))
               ELSE with_booth
           with_tier ==
               Append(with_website,
                      reason("Qualification Score", <<score, qualification_tier(score)>>))
       IN  /\ qualification_score' = score
           /\ reasons' = with_generic_reason(with_tier)
           /\ qualification_reason' = with_generic_reason(with_tier)
    /\ pc' = "qualified"
    /\ UNCHANGED <<exhibitor, error, others>>

NextQualify ==
    CheckProductCategories \/ CheckDescription \/ AddRevenueAndSize \/ FinishQualification

QualifySpec == QualifyInit /\ [][NextQualify]_vars

(***************************************************************************)
(* MessageGenerator.generate_messages_for_stakeholders, row by row.        *)
(***************************************************************************)
(* The stakeholder table may lack one of the columns the loop reads.       *)
MessageColumnChoices ==
    {(required_stakeholder_columns \cup optional_stakeholder_columns) \ absent :
        absent \in {{}, {"company"}, {"name"}}}

ApiKeys == {"", "sk-test"}

(* An outreach_message cell: which text it holds and what was filled in.   *)
message(kind, lead) ==
    [kind |-> kind, name |-> lead.name, title |-> lead.title, company |-> lead.company,
     company_description |-> lead.company_description]

empty_message ==
    [kind |-> "", name |-> "", title |-> <<>>, company |-> <<>>,
     company_description |-> <<>>]

unable_message == [empty_message EXCEPT !.kind = "Unable to generate message."]

(* companies_dict[name], filled row after row: the last row of a name      *)
(* stays.                                                                  *)
companies_dict(companies, name) ==
    LET rows == {j \in 1..Len(companies) : companies[j].name = name}
    IN  IF rows = {} THEN <<>> ELSE <<companies[largest(rows)]>>

(* stakeholder.to_dict() with the company's description added when the     *)
(* company is known.                                                       *)
stakeholder_data(stakeholder, companies) ==
    LET company_info == companies_dict(companies, stakeholder.company)
    IN  [name |-> stakeholder.name, title |-> stakeholder.title,
         company |-> stakeholder.company,
         company_description |->
            IF company_info = <<>> THEN <<>> ELSE company_info[1].description]

(* What generate_personalized_message may return: the template without an  *)
(* API key; with one, the model's text, or the template when the call      *)
(* fails.                                                                  *)
personalized_messages(key, lead) ==
    IF key = "" THEN {message("template", lead)}
    ELSE {message("openai", lead), message("template", lead)}

MessageInit ==
    /\ pc = "messages"
    /\ error = "none"
    /\ weights = <<>>
    /\ company_columns = required_company_columns \cup optional_company_columns
    /\ companies_df =
          [i \in 1..Len(StakeholderCompanies) |->
              company_row(StakeholderCompanies[i], company_columns)]
    /\ stakeholder_columns \in MessageColumnChoices
    /\ \E n \in 0..MaxStakeholders :
          \E t \in [1..n -> TitledStakeholders] :
              stakeholders_df =
                  [i \in 1..n |-> stakeholder_row(t[i], i, stakeholder_columns)]
    /\ scored_companies_df = <<>>
    /\ scored_stakeholders_df = <<>>
    /\ leads_df = <<>>
    /\ leads_index = <<>>
    /\ leads_columns = <<>>
    /\ argsort_results = {}
    /\ first_run = <<>>
    /\ enriched_df = <<>>
    /\ enriched_again_df = <<>>
    /\ not_qualifying
    /\ openai_api_key \in ApiKeys
    /\ result_df = <<>>
    /\ idx = 0
    /\ attempts = <<>>

untouched_by_messages ==
    <<inputs, scored_companies_df, scored_stakeholders_df, leads_df, leads_index,
      leads_columns, argsort_results, first_run, enriched, qualification, openai_api_key>>

(* Lines 77-84: the copy, the empty outreach_message column, the company   *)
(* dictionary.                                                             *)
StartMessages ==
    /\ pc = "messages"
    /\ result_df' =
          [i \in 1..Len(stakeholders_df) |->
              [outreach_message |-> empty_message] @@ stakeholders_df[i]]
    /\ attempts' = [i \in 1..Len(stakeholders_df) |-> 0]
    /\ idx' = 0
    /\ pc' = "generating"
    /\ UNCHANGED <<error, untouched_by_messages>>

(* Lines 86-107, one pass of the loop.  Reading a column the table lacks   *)
(* raises KeyError inside the try; the handler reads stakeholder['name']   *)
(* for its log line, outside any try.                                      *)
GenerateMessage ==
    /\ pc = "generating"
    /\ idx < Len(result_df)
    /\ LET i == idx + 1
           called == "company" \in stakeholder_columns
           failed == ~called \/ "name" \notin stakeholder_columns
       IN  /\ attempts' = [attempts EXCEPT ![i] = attempts[i] + IF called THEN 1 ELSE 0]
           /\ IF ~failed
              THEN \E text \in personalized_messages(
                                  openai_api_key,
                                  stakeholder_data(result_df[i], companies_df)) :
                      /\ result_df' = [result_df EXCEPT ![i].outreach_message = text]
                      /\ idx' = i
                      /\ UNCHANGED <<pc, error>>
              ELSE IF "name" \in stakeholder_columns
              THEN /\ result_df' = [result_df EXCEPT ![i].outreach_message = unable_message]
                   /\ idx' = i
                   /\ UNCHANGED <<pc, error>>
              ELSE /\ pc' = "error"
                   /\ error' = "KeyError"
                   /\ UNCHANGED <<result_df, idx>>
    /\ UNCHANGED untouched_by_messages

(* Line 109.                                                               *)
ReturnMessages ==
    /\ pc = "generating"
    /\ idx = Len(result_df)
    /\ pc' = "messages_done"
    /\ UNCHANGED <<error, result_df, idx, attempts, untouched_by_messages>>

NextMessages == StartMessages \/ GenerateMessage \/ ReturnMessages

MessageSpec == MessageInit /\ [][NextMessages]_vars

(***************************************************************************)
(* Properties.                                                             *)
(***************************************************************************)
companies_scored == pc \in {"companies_scored", "stakeholders_scored", "done", "error"}

stakeholders_scored ==
    \/ pc \in {"stakeholders_scored", "done"}
    \/ pc = "error" /\ error = "KeyError"

in_unit_interval(x) == ~is_nan(x) /\ 0 <= x /\ x <= 1000

(* C1: every size_score, industry_score, product_fit_score, company_score, *)
(* decision_making_power, stakeholder_score and lead_score of the three    *)
(* output tables lies in [0,1], for every input batch, also when the       *)
(* stakeholder table already carries decision_making_power.                *)
C1_ScoresInUnitInterval ==
    /\ companies_scored =>
          \A i \in 1..Len(scored_companies_df) :
              /\ in_unit_interval(scored_companies_df[i].size_score)
              /\ in_unit_interval(scored_companies_df[i].industry_score)
              /\ in_unit_interval(scored_companies_df[i].product_fit_score)
              /\ in_unit_interval(scored_companies_df[i].company_score)
    /\ stakeholders_scored =>
          \A i \in 1..Len(scored_stakeholders_df) :
              /\ in_unit_interval(scored_stakeholders_df[i].decision_making_power)
              /\ in_unit_interval(scored_stakeholders_df[i].company_score)
              /\ in_unit_interval(scored_stakeholders_df[i].stakeholder_score)
    /\ pc = "done" =>
          \A k \in 1..Len(leads_df) :
              /\ in_unit_interval(leads_df[k].lead_score)
              /\ in_unit_interval(leads_df[k].company_score)
              /\ in_unit_interval(leads_df[k].stakeholder_score)
              /\ in_unit_interval(leads_df[k].decision_making_power)

(* C2: for a non-empty company batch the largest company_score is exactly  *)
(* 1.0, some company has it, and every company_score is the company's      *)
(* weighted sub-score sum divided by the largest weighted sum of the       *)
(* batch, rounded to 2 decimals (a multiple of 0.01 within half of 0.01).  *)
C2_CompanyScoreNormalized ==
    (companies_scored /\ Len(scored_companies_df) > 0) =>
        LET n == Len(scored_companies_df)
            sum(i) ==
                scored_companies_df[i].size_score * weights.company_size
                + scored_companies_df[i].industry_score * weights.industry_relevance
                + scored_companies_df[i].product_fit_score * weights.product_fit
            top == CHOOSE i \in 1..n : \A j \in 1..n : sum(j) <= sum(i)
            off(i) == scored_companies_df[i].company_score * sum(top) - 1000 * sum(i)
        IN  /\ \E i \in 1..n : scored_companies_df[i].company_score = 1000
            /\ \A i \in 1..n :
                  /\ scored_companies_df[i].company_score <= 1000
                  /\ scored_companies_df[i].company_score % 10 = 0
                  /\ 2 * off(i) <= 10 * sum(top)
                  /\ 2 * off(i) >= -(10 * sum(top))

C2_Witness ==
    /\ companies_scored
    /\ \E i, j \in 1..Len(scored_companies_df) :
          /\ scored_companies_df[i].company_score = 1000
          /\ scored_companies_df[j].company_score < 1000
          /\ scored_companies_df[j].company_score > 0

(* C3: the tier depends on lead_score alone, with right-closed bins:       *)
(* (0.6, 1.0] is Tier 1, (0.3, 0.6] is Tier 2, (0, 0.3] is Tier 3; leads   *)
(* with equal lead_score have the same tier.                               *)
C3_TierBins ==
    pc = "done" =>
        \A k \in 1..Len(leads_df) :
            LET score == leads_df[k].lead_score
                tier == leads_df[k].tier
            IN  /\ (600 < score /\ score <= 1000) => tier = "Tier 1"
                /\ (300 < score /\ score <= 600) => tier = "Tier 2"
                /\ (0 < score /\ score <= 300) => tier = "Tier 3"
                /\ \A m \in 1..Len(leads_df) :
                      leads_df[m].lead_score = score => leads_df[m].tier = tier

C3_Witness ==
    /\ pc = "done"
    /\ \E k, m \in 1..Len(leads_df) :
          /\ leads_df[k].lead_score = 1000 /\ leads_df[k].tier = "Tier 1"
          /\ leads_df[m].lead_score = 300 /\ leads_df[m].tier = "Tier 3"

(* C4: the leads table is ordered by lead_score descending: each row's     *)
(* lead_score is at least the next row's.                                  *)
C4_LeadsSortedDescending ==
    pc = "done" =>
        \A k \in 1..(Len(leads_df) - 1) :
            /\ ~is_nan(leads_df[k].lead_score)
            /\ ~is_nan(leads_df[k + 1].lead_score)
            /\ leads_df[k].lead_score >= leads_df[k + 1].lead_score

C4_Witness ==
    /\ pc = "done"
    /\ \E k \in 1..(Len(leads_df) - 1) :
          /\ leads_df[k].lead_score > leads_df[k + 1].lead_score
          /\ leads_index[k] > leads_index[k + 1]

(* The position of a stakeholder in the input table (names are unique in   *)
(* the batches of this model).                                             *)
stakeholder_position(name) ==
    CHOOSE i \in 1..Len(stakeholders_df) : stakeholders_df[i].name = name

(* C5: leads with equal lead_score appear in the relative order of their   *)
(* stakeholders in the input stakeholder table (the sort is stable).       *)
C5_TiesKeepInputOrder ==
    pc = "done" =>
        \A k, m \in 1..Len(leads_df) :
            (k < m /\ leads_df[k].lead_score = leads_df[m].lead_score) =>
                stakeholder_position(leads_df[k].name)
                    <= stakeholder_position(leads_df[m].name)

(* C6: lead_score is 0.6 * company_score + 0.4 * stakeholder_score rounded *)
(* to 2 decimals, with the stakeholder's stakeholder_score and the         *)
(* company_score of a scored company row named like the lead's company;    *)
(* the blend does not depend on the configured weights.                    *)
C6_LeadScoreBlend ==
    pc = "done" =>
        \A k \in 1..Len(leads_df) :
            LET lead == leads_df[k]
                s == scored_stakeholders_df[stakeholder_position(lead.name)]
                exact == 6 * lead.company_score + 4 * lead.stakeholder_score
            IN  /\ lead.stakeholder_score = s.stakeholder_score
                /\ \E j \in 1..Len(scored_companies_df) :
                      /\ scored_companies_df[j].name = lead.company
                      /\ scored_companies_df[j].company_score = lead.company_score
                /\ lead.lead_score % 10 = 0
                /\ 10 * lead.lead_score - exact <= 50
                /\ 10 * lead.lead_score - exact >= -50

C6_Witness ==
    /\ pc = "done"
    /\ \E k \in 1..Len(leads_df) :
          /\ leads_df[k].company_score < leads_df[k].lead_score
          /\ leads_df[k].lead_score < leads_df[k].stakeholder_score
          /\ 2 * leads_df[k].lead_score
                # leads_df[k].company_score + leads_df[k].stakeholder_score

(* The k-th smallest value of a non-empty series.                          *)
kth_smallest(values, k) ==
    CHOOSE v \in {values[i] : i \in 1..Len(values)} :
        /\ Cardinality({i \in 1..Len(values) : values[i] < v}) < k
        /\ k <= Cardinality({i \in 1..Len(values) : values[i] <= v})

(* Twice the median of the company_score column of the scored companies.   *)
twice_median_company_score ==
    LET scores == [j \in 1..Len(scored_companies_df) |->
                      scored_companies_df[j].company_score]
        n == Len(scores)
    IN  kth_smallest(scores, (n + 1) \div 2) + kth_smallest(scores, (n + 2) \div 2)

has_company(i) ==
    \E j \in 1..Len(companies_df) : companies_df[j].name = stakeholders_df[i].company

(* C7: a stakeholder has a row in the leads table exactly when its company *)
(* string equals, case-sensitively, the name of some company row; an       *)
(* unmatched stakeholder stays in the scored stakeholder table, with the   *)
(* fallback company_score.                                                 *)
C7_LeadIffCompanyMatches ==
    pc = "done" =>
        /\ Len(scored_stakeholders_df) = Len(stakeholders_df)
        /\ \A i \in 1..Len(stakeholders_df) :
              /\ (\E k \in 1..Len(leads_df) : leads_df[k].name = stakeholders_df[i].name)
                    <=> has_company(i)
              /\ scored_stakeholders_df[i].name = stakeholders_df[i].name
              /\ (~has_company(i) /\ Len(companies_df) > 0) =>
                    2 * scored_stakeholders_df[i].company_score
                        = twice_median_company_score

C7_Witness ==
    /\ pc = "done"
    /\ \E i, j \in 1..Len(stakeholders_df) :
          /\ has_company(i)
          /\ ~has_company(j)
          /\ \E c \in 1..Len(companies_df) :
                lower(companies_df[c].name) = lower(stakeholders_df[j].company)
          /\ \E k \in 1..Len(leads_df) : leads_df[k].name = stakeholders_df[i].name
          /\ \A k \in 1..Len(leads_df) : leads_df[k].name # stakeholders_df[j].name

(* C8: in _score_stakeholders a stakeholder whose company equals no        *)
(* company name gets the median company_score of the batch, which is not   *)
(* zero; one whose company matches gets the company_score of a company row *)
(* of that name.                                                           *)
C8_JoinMissGetsMedian ==
    (stakeholders_scored /\ Len(scored_companies_df) > 0) =>
        \A i \in 1..Len(scored_stakeholders_df) :
            LET score == scored_stakeholders_df[i].company_score
                rows == {j \in 1..Len(scored_companies_df) :
                            scored_companies_df[j].name = stakeholders_df[i].company}
            IN  IF rows = {}
                THEN /\ ~is_nan(score)
                     /\ score # 0
                     /\ 2 * score = twice_median_company_score
                ELSE \E j \in rows : score = scored_companies_df[j].company_score

C8_Witness ==
    /\ pc = "stakeholders_scored"
    /\ Len(scored_companies_df) = 3
    /\ scored_companies_df[1].company_score < scored_companies_df[3].company_score
    /\ scored_companies_df[3].company_score < scored_companies_df[2].company_score
    /\ 3 * scored_companies_df[3].company_score
          # scored_companies_df[1].company_score + scored_companies_df[2].company_score
            + scored_companies_df[3].company_score
    /\ \E i \in 1..Len(stakeholders_df) :
          /\ ~has_company(i)
          /\ scored_stakeholders_df[i].company_score
                = scored_companies_df[3].company_score

(* C9: lead ids follow the rank after the descending sort: the k-th row    *)
(* has lead_id LEAD- followed by k zero-padded to 4 digits, so LEAD-0001   *)
(* has the largest lead_score, ids are pairwise distinct, and a lower id   *)
(* never has a lower lead_score than a higher one.                         *)
C9_LeadIdsFollowRank ==
    pc = "done" =>
        \A k \in 1..Len(leads_df) :
            LET id == leads_df[k].lead_id
            IN  /\ Len(id) = 9
                /\ SubSeq(id, 1, 5) = <<"L", "E", "A", "D", "-">>
                /\ parse_int(SubSeq(id, 6, 9)) = k
                /\ \A m \in 1..Len(leads_df) :
                      /\ m # k => leads_df[m].lead_id # id
                      /\ leads_df[1].lead_score >= leads_df[m].lead_score
                      /\ k < m => leads_df[k].lead_score >= leads_df[m].lead_score

C9_Witness ==
    /\ pc = "done"
    /\ Len(leads_df) >= 2
    /\ leads_index[1] # 0
    /\ leads_df[1].lead_id = <<"L", "E", "A", "D", "-", "0", "0", "0", "1">>
    /\ leads_df[1].lead_score > leads_df[2].lead_score

(* C10: _generate_leads returns only allow-list columns, in allow-list     *)
(* order, and an optional column absent from the company or stakeholder    *)
(* input is omitted from the leads table without an error.                 *)
C10_AbsentColumnsOmitted ==
    pc \in {"done", "error"} =>
        /\ error = "none"
        /\ leads_columns =
              SelectSeq(dashboard_columns,
                        LAMBDA col :
                            col \notin (optional_company_columns \ company_columns)
                                       \cup (optional_stakeholder_columns
                                             \ stakeholder_columns))
        /\ \A k \in 1..Len(leads_df) :
              DOMAIN leads_df[k] = {leads_columns[n] : n \in 1..Len(leads_columns)}

(* C11: an empty batch is valid input: with no company rows or no          *)
(* stakeholder rows (all merged columns present) score_leads raises        *)
(* nothing, returns an empty leads table, and stakeholders scored against  *)
(* an empty company table still get a numeric company_score and            *)
(* stakeholder_score.                                                      *)
C11_EmptyBatchIsValid ==
    ((Len(companies_df) = 0 \/ Len(stakeholders_df) = 0)
        /\ merge_company_columns \subseteq scored_company_columns) =>
        /\ error = "none"
        /\ pc = "done" => Len(leads_df) = 0
        /\ stakeholders_scored =>
              \A i \in 1..Len(scored_stakeholders_df) :
                  /\ ~is_nan(scored_stakeholders_df[i].company_score)
                  /\ ~is_nan(scored_stakeholders_df[i].stakeholder_score)

(* A cell that holds no value: None, the empty text, or NaN.               *)
no_value(v) == v \in {None, <<>>, float_nan}

recognised_size(i) ==
    /\ "company_size" \in company_columns
    /\ lower(str(companies_df[i].company_size)) \in {<<"l", "a", "r", "g", "e">>, <<"m", "e", "d", "i", "u", "m">>, <<"s", "m", "a", "l", "l">>, <<"m", "i", "c", "r", "o">>}

has_employee_count(i) ==
    "employees" \in company_columns /\ ~is_nan(companies_df[i].employees)

(* C12: a missing sub-score input is replaced by the neutral 0.5: a record *)
(* whose industry is absent (no column, or no value in its cell) gets      *)
(* industry_score 0.5, a record with neither a recognised size category    *)
(* nor an employee count gets size_score 0.5, and every record of the      *)
(* batch is scored.                                                        *)
C12_MissingInputsScoreNeutral ==
    companies_scored =>
        /\ Len(scored_companies_df) = Len(companies_df)
        /\ \A i \in 1..Len(companies_df) :
              /\ ("industry" \notin company_columns \/ no_value(companies_df[i].industry))
                    => scored_companies_df[i].industry_score = 500
              /\ (~recognised_size(i) /\ ~has_employee_count(i))
                    => scored_companies_df[i].size_score = 500

(* C13: the batch of the one company Acme (Large, Signage, Banners, Vinyl) *)
(* and its CEO Jo is scored without error: size_score 1.0, industry_score  *)
(* 1.0, product_fit_score at least 0.7, company_score 1.0,                 *)
(* decision_making_power 1.0, stakeholder_score 1.0, and a single lead     *)
(* with lead_score 1.0 in Tier 1.                                          *)
C13_AcmeScenario ==
    is_scenario =>
        /\ error = "none"
        /\ companies_scored =>
              /\ scored_companies_df[1].size_score = 1000
              /\ scored_companies_df[1].industry_score = 1000
              /\ scored_companies_df[1].product_fit_score >= 700
              /\ scored_companies_df[1].company_score = 1000
        /\ stakeholders_scored =>
              /\ scored_stakeholders_df[1].decision_making_power = 1000
              /\ scored_stakeholders_df[1].stakeholder_score = 1000
        /\ pc \in {"done", "error"} =>
              /\ Len(leads_df) = 1
              /\ leads_df[1].lead_score = 1000
              /\ leads_df[1].tier = "Tier 1"

C15_EnrichIdempotent ==
    pc = "enriched_again" =>
        /\ Len(enriched_again_df) = Len(enriched_df)
        /\ \A i \in 1..Len(enriched_df) :
              \A f \in extracted_columns : enriched_again_df[i][f] = enriched_df[i][f]

C15_Witness ==
    /\ pc = "enriched_again"
    /\ \E i \in 1..Len(companies_df) :
          /\ ~("industry" \in company_columns /\ truthy(companies_df[i].industry))
          /\ enriched_df[i].industry = <<"s", "i", "g", "n", "a", "g", "e">>
          /\ enriched_again_df[i].products = <<<<"S", "i", "g", "n", "s">>, <<"D", "i", "s", "p", "l", "a", "y", "s">>>>

is_enriched == pc \in {"enriched", "enriched_again"}

(* C16: extraction only fills gaps: an industry, company_size, products,   *)
(* materials or target_markets cell that holds a non-empty value in the    *)
(* input of enrich_companies holds the same value in its output.           *)
C16_ExistingValuesKept ==
    is_enriched =>
        \A i \in 1..Len(companies_df) :
            \A f \in extracted_columns :
                (f \in company_columns /\ truthy(companies_df[i][f]))
                    => enriched_df[i][f] = companies_df[i][f]

(* A row of the collected table without an industry: no such column, or a  *)
(* None or empty cell.                                                     *)
lacks_industry(i) ==
    "industry" \notin company_columns \/ companies_df[i].industry \in {None, <<>>}

(* The number of keywords of the k-th category in the text of row i.       *)
category_hits(i, k) ==
    keyword_hits(industry_keywords[k][2], industry_text(companies_df[i], company_columns))

C18_SizeScoreLadder ==
    companies_scored =>
        \A i \in 1..Len(companies_df) :
            LET size == lower(str(companies_df[i].company_size))
                n == companies_df[i].employees
            IN  scored_companies_df[i].size_score =
                    IF recognised_size(i)
                    THEN IF size = <<"l", "a", "r", "g", "e">> THEN 1000
                         ELSE IF size = <<"m", "e", "d", "i", "u", "m">> THEN 700
                         ELSE IF size = <<"s", "m", "a", "l", "l">> THEN 400
                         ELSE 200
                    ELSE IF has_employee_count(i)
                    THEN IF n >= 1000 THEN 1000
                         ELSE IF n >= 250 THEN 800
                         ELSE IF n >= 50 THEN 600
                         ELSE IF n >= 10 THEN 400
                         ELSE 200
                    ELSE 500

(* C19: industry_score follows the keyword tiers: 1.0 for an industry that *)
(* names sign, signage or display; else 0.8 for graphic, print or          *)
(* advertising; else 0.6 for marketing, media, visual, design or           *)
(* exhibition; else 0.4 for manufacturing, production, retail or           *)
(* construction; else 0.2.  In particular the industries Marketing, Media, *)
(* Visual, Design and Exhibition score 0.6.                                *)
C19_IndustryKeywordTiers ==
    companies_scored =>
        \A i \in 1..Len(companies_df) :
            ("industry" \in company_columns /\ ~no_value(companies_df[i].industry)) =>
                LET industry == lower(companies_df[i].industry)
                    score == scored_companies_df[i].industry_score
                IN  /\ score =
                          IF any_keyword_in(<<<<"s", "i", "g", "n">>, <<"s", "i", "g", "n", "a", "g", "e">>, <<"d", "i", "s", "p", "l", "a", "y">>>>, industry)
                          THEN 1000
                          ELSE IF any_keyword_in(<<<<"g", "r", "a", "p", "h", "i", "c">>, <<"p", "r", "i", "n", "t">>, <<"a", "d", "v", "e", "r", "t", "i", "s", "i", "n", "g">>>>, industry)
                          THEN 800
                          ELSE IF any_keyword_in(<<<<"m", "a", "r", "k", "e", "t", "i", "n", "g">>, <<"m", "e", "d", "i", "a">>, <<"v", "i", "s", "u", "a", "l">>, <<"d", "e", "s", "i", "g", "n">>,
                                                   <<"e", "x", "h", "i", "b", "i", "t", "i", "o", "n">>>>, industry)
                          THEN 600
                          ELSE IF any_keyword_in(<<<<"m", "a", "n", "u", "f", "a", "c", "t", "u", "r", "i", "n", "g">>, <<"p", "r", "o", "d", "u", "c", "t", "i", "o", "n">>, <<"r", "e", "t", "a", "i", "l">>,
                                                   <<"c", "o", "n", "s", "t", "r", "u", "c", "t", "i", "o", "n">>>>, industry)
                          THEN 400
                          ELSE 200
                    /\ companies_df[i].industry
                          \in {<<"M", "a", "r", "k", "e", "t", "i", "n", "g">>, <<"M", "e", "d", "i", "a">>, <<"V", "i", "s", "u", "a", "l">>, <<"D", "e", "s", "i", "g", "n">>, <<"E", "x", "h", "i", "b", "i", "t", "i", "o", "n">>}
                          => score = 600

(* The smaller of two numbers.                                             *)
at_most(x, cap) == IF x < cap THEN x ELSE cap

(* C20: product_fit_score is 0.5 plus 0.1 per relevant product, at most    *)
(* 0.3 in all, plus 0.1 per relevant material, at most 0.3 in all, the two *)
(* caps independent, the result clamped to [0,1]; so a company with no     *)
(* relevant product scores at most 0.8.                                    *)
C20_ProductFitCaps ==
    companies_scored =>
        \A i \in 1..Len(companies_df) :
            ("products" \in company_columns /\ "materials" \in company_columns) =>
                LET from_products ==
                        100 * relevant_items(companies_df[i].products, relevant_products)
                    from_materials ==
                        100 * relevant_items(companies_df[i].materials, relevant_materials)
                    score == scored_companies_df[i].product_fit_score
                IN  /\ score = at_most(500 + at_most(from_products, 300)
                                           + at_most(from_materials, 300), 1000)
                    /\ from_products = 0 => score <= 800

(* C21: decision_making_power derived from the title takes the first       *)
(* matching tier from the top: 1.0 for ceo, chief, president, owner,       *)
(* founder or managing director; else 0.8 for director, vp, vice president *)
(* or head; else 0.6 for manager, lead, senior or principal; 0.4 for any   *)
(* other title; 0.5 for a blank or missing one.  In particular 'Managing   *)
(* Director' gives 1.0, and 'VP' and 'Vice President' give 0.8.            *)
C21_TitleTiers ==
    (stakeholders_scored /\ "decision_making_power" \notin stakeholder_columns) =>
        \A i \in 1..Len(stakeholders_df) :
            LET job_title == stakeholders_df[i].title
                power == scored_stakeholders_df[i].decision_making_power
                names(keywords) == any_keyword_in(keywords, lower(job_title))
            IN  /\ power =
                      IF no_value(job_title) THEN 500
                      ELSE IF names(<<<<"c", "e", "o">>, <<"c", "h", "i", "e", "f">>, <<"p", "r", "e", "s", "i", "d", "e", "n", "t">>, <<"o", "w", "n", "e", "r">>, <<"f", "o", "u", "n", "d", "e", "r">>,
                                      <<"m", "a", "n", "a", "g", "i", "n", "g", " ", "d", "i", "r", "e", "c", "t", "o", "r">>>>)
                      THEN 1000
                      ELSE IF names(<<<<"d", "i", "r", "e", "c", "t", "o", "r">>, <<"v", "p">>, <<"v", "i", "c", "e", " ", "p", "r", "e", "s", "i", "d", "e", "n", "t">>, <<"h", "e", "a", "d">>>>)
                      THEN 800
                      ELSE IF names(<<<<"m", "a", "n", "a", "g", "e", "r">>, <<"l", "e", "a", "d">>, <<"s", "e", "n", "i", "o", "r">>, <<"p", "r", "i", "n", "c", "i", "p", "a", "l">>>>)
                      THEN 600
                      ELSE 400
                /\ job_title = <<"M", "a", "n", "a", "g", "i", "n", "g", " ", "D", "i", "r", "e", "c", "t", "o", "r">> => power = 1000
                /\ job_title \in {<<"V", "P">>, <<"V", "i", "c", "e", " ", "P", "r", "e", "s", "i", "d", "e", "n", "t">>} => power = 800

(* The stakeholder table carries a number for record i.                    *)
has_numeric_power(i) ==
    /\ "decision_making_power" \in stakeholder_columns
    /\ ~is_nan(stakeholders_df[i].decision_making_power)
    /\ ~is_label(stakeholders_df[i].decision_making_power)

(* C22: record by record, a numeric decision_making_power supplied with    *)
(* the record is kept, and a record without one (absent, empty or a label) *)
(* gets the value derived from its own title, also when other records of   *)
(* the batch carry a number.                                               *)
C22_PowerDerivedPerRecord ==
    pc \in {"stakeholders_scored", "done", "error"} =>
        /\ error # "TypeError"
        /\ \A i \in 1..Len(stakeholders_df) :
              scored_stakeholders_df[i].decision_making_power =
                  IF has_numeric_power(i)
                  THEN stakeholders_df[i].decision_making_power
                  ELSE calculate_decision_power_from_title(stakeholders_df[i],
                                                           stakeholder_columns)

(* decision_making_power * w + company_score * (1 - w) of scored record i, *)
(* in units of 1e-5.                                                       *)
stakeholder_raw(i) ==
    scored_stakeholders_df[i].decision_making_power * weights.decision_making_power
    + scored_stakeholders_df[i].company_score * (100 - weights.decision_making_power)

(* C23: in a non-empty stakeholder batch every stakeholder_score is        *)
(* decision_making_power * w + company_score * (1 - w) divided by the      *)
(* largest such value of the batch, rounded to 2 decimals; so the largest  *)
(* stakeholder_score is exactly 1.0 and some stakeholder has it.           *)
C23_StakeholderScoreNormalized ==
    (stakeholders_scored /\ Len(stakeholders_df) > 0) =>
        LET rows == 1..Len(stakeholders_df)
            top == CHOOSE i \in rows : \A j \in rows : stakeholder_raw(j) <= stakeholder_raw(i)
        IN  /\ \A i \in rows :
                  /\ ~is_nan(scored_stakeholders_df[i].stakeholder_score)
                  /\ scored_stakeholders_df[i].stakeholder_score =
                        round2(stakeholder_raw(i), stakeholder_raw(top))
            /\ \E i \in rows : scored_stakeholders_df[i].stakeholder_score = 1000
            /\ \A i \in rows : scored_stakeholders_df[i].stakeholder_score <= 1000

(* C24: scoring only adds.  The scored company table has the rows of the   *)
(* input in the same order, every input column with its value, and the     *)
(* score columns besides; likewise the scored stakeholder table; and no    *)
(* step of score_leads changes the caller's two tables.                    *)
C24_ScoringIsAdditive ==
    /\ [](companies_scored =>
            /\ Len(scored_companies_df) = Len(companies_df)
            /\ \A i \in 1..Len(companies_df) :
                  /\ DOMAIN scored_companies_df[i] = DOMAIN companies_df[i] \cup score_columns
                  /\ \A f \in DOMAIN companies_df[i] :
                        scored_companies_df[i][f] = companies_df[i][f])
    /\ [](stakeholders_scored =>
            /\ Len(scored_stakeholders_df) = Len(stakeholders_df)
            /\ \A i \in 1..Len(stakeholders_df) :
                  /\ DOMAIN stakeholders_df[i] \subseteq DOMAIN scored_stakeholders_df[i]
                  /\ \A f \in stakeholder_columns :
                        scored_stakeholders_df[i][f] = stakeholders_df[i][f])
    /\ [][inputs' = inputs]_vars

C24_Witness ==
    /\ pc = "done"
    /\ Len(companies_df) >= 2
    /\ Len(stakeholders_df) >= 2
    /\ "decision_making_power" \in stakeholder_columns
    /\ Len(leads_df) >= 1

(* The points of the entries found in a text, from entry k on, uncapped.   *)
RECURSIVE matching_points(_, _, _)
matching_points(entries, text, k) ==
    IF k > Len(entries) THEN 0
    ELSE (IF contains(entries[k][1], text) THEN 10 * entries[k][2] ELSE 0)
         + matching_points(entries, text, k + 1)

(* Nothing in the exhibitor record speaks for it: no product category and  *)
(* no description term matches, there is no revenue or size information,   *)
(* no booth and no website.                                                *)
no_signal ==
    /\ strip(exhibitor.booth) = <<>>
    /\ strip(exhibitor.website) = <<>>
    /\ matching_points(relevant_categories, lower(exhibitor.product_categories), 1) = 0
    /\ matching_points(relevant_description_terms, lower(exhibitor.description), 1) = 0
    /\ \E info \in {extract_revenue_and_size_info(exhibitor)} :
          /\ info.error = "none"
          /\ Len(info.revenue_info) = 0
          /\ Len(info.size_info) = 0

(* C25: _generate_qualification_reason changes no field of the exhibitor   *)
(* record, and when no signal fires the text it returns is the tier line   *)
(* and the one generic sentence, nothing else.                             *)
C25_NarratorOnlyExplains ==
    /\ [][exhibitor' = exhibitor]_vars
    /\ []((pc = "qualified" /\ no_signal) =>
            /\ Len(qualification_reason) = 2
            /\ qualification_reason[1].text = "Qualification Score"
            /\ qualification_reason[2].text = generic_reason.text)

C25_Witness ==
    /\ pc = "qualified"
    /\ no_signal
    /\ exhibitor.description # <<>>
    /\ exhibitor.phone # <<>>

(* C27: the qualification score lies in [0, 100] for every exhibitor       *)
(* record, and the line 'Qualification Score: N/100' never shows an N      *)
(* above 100.                                                              *)
C27_QualificationScoreInRange ==
    pc = "qualified" =>
        /\ 0 <= qualification_score
        /\ qualification_score <= 1000
        /\ \A k \in 1..Len(qualification_reason) :
              qualification_reason[k].text = "Qualification Score" =>
                  qualification_reason[k].detail[1] <= 1000

(* C28: after the description step the score is the points of the matching *)
(* product categories, at most 50, plus the points of the matching         *)
(* description terms, at most 30; so a matching description term never     *)
(* lowers what the product categories earned.                              *)
C28_DescriptionPointsAdd ==
    pc = "description_checked" =>
        LET category_points ==
                at_most(matching_points(relevant_categories,
                                        lower(exhibitor.product_categories), 1), 500)
            description_points ==
                at_most(matching_points(relevant_description_terms,
                                        lower(exhibitor.description), 1), 300)
        IN  /\ qualification_score = category_points + description_points
            /\ qualification_score >= category_points

(* C26: generate_messages_for_stakeholders returns one row per stakeholder *)
(* in the input, each with the input's columns unchanged and a filled      *)
(* outreach_message; generation is attempted exactly once per stakeholder, *)
(* a failed row reads 'Unable to generate message.', and a failure neither *)
(* aborts the batch nor touches another row's message.                     *)
is_message_for(i) ==
    LET cell == result_df[i].outreach_message
    IN  \/ cell = unable_message
        \/ /\ cell.kind \in {"template", "openai"}
           /\ cell.name = stakeholders_df[i].name
           /\ cell.title = stakeholders_df[i].title
           /\ cell.company = stakeholders_df[i].company

powers_in_unit_interval ==
    "decision_making_power" \in stakeholder_columns =>
        \A i \in 1..Len(stakeholders_df) :
            /\ stakeholders_df[i].decision_making_power >= 0
            /\ stakeholders_df[i].decision_making_power <= 1000

positive_weights ==
    /\ weights # <<>>
    /\ weights.company_size > 0
    /\ weights.industry_relevance > 0
    /\ weights.product_fit > 0
    /\ weights.decision_making_power > 0

C29_EveryLeadHasATier ==
    (positive_weights /\ powers_in_unit_interval) =>
        /\ companies_scored =>
              \A i \in 1..Len(scored_companies_df) :
                  scored_companies_df[i].company_score >= 200
        /\ pc = "done" =>
              \A k \in 1..Len(leads_df) :
                  /\ leads_df[k].lead_score > 0
                  /\ leads_df[k].tier \in {"Tier 1", "Tier 2", "Tier 3"}

(* C30: each stakeholder yields at most one lead, also when two rows of    *)
(* the company table share a name (they differ in the website): there are  *)
(* never more leads than stakeholders, and each lead's company_score is    *)
(* the company_score of the company row the lead was joined to.            *)
company_attributes == {"industry", "company_size", "products", "materials", "target_markets"}

joined_to(k, j) ==
    /\ scored_companies_df[j].name = leads_df[k].company
    /\ \A column \in company_attributes \cap DOMAIN leads_df[k] :
          leads_df[k][column] = scored_companies_df[j][column]

C30_OneLeadPerStakeholder ==
    pc = "done" =>
        /\ Len(leads_df) <= Len(stakeholders_df)
        /\ \A k \in 1..Len(leads_df) :
              \A j \in 1..Len(scored_companies_df) :
                  joined_to(k, j) =>
                      leads_df[k].company_score = scored_companies_df[j].company_score

====
